---- MODULE Spec2Model ----
(***************************************************************************)
(* Respondent invitation and link-resolution engine of the practice        *)
(* management backend: signed respondent tokens (assessments/              *)
(* respondent_links.py), the RespondentInvite rows behind them             *)
(* (assessments/models.py) and the anonymous respondent endpoints that     *)
(* resolve a token, bind a pending client and record a response, and the   *)
(* clinician endpoints that send an invite by email, create a schedule of  *)
(* invites and delete one (assessments/views.py).                          *)
(*                                                                         *)
(* Time is counted in whole hours.  A database NULL / Python None is the   *)
(* string None for slugs, 0 for row ids and -1 for timestamps.  Every      *)
(* request handler is cut into one action per database round trip, so two  *)
(* handlers interleave exactly where two server workers can; the blocks    *)
(* the code runs under transaction.atomic() with select_for_update() are   *)
(* single actions.                                                         *)
(***************************************************************************)
EXTENDS Integers, Sequences, FiniteSets, TLC

VARIABLES
    now,        \* timezone.now(), in hours
    clients,    \* Client rows
    invites,    \* RespondentInvite rows
    responses,  \* AssessmentResponse rows
    nonces,     \* number of nonces drawn from secrets.token_urlsafe so far
    client_ids, \* the Client table's primary key sequence
    issued,     \* every token string handed to a caller so far
    req,        \* the in-flight respondent requests, one per server worker
    last,       \* the response of the handler that answered last
    RESPONDENT_LINK_DEFAULT_MAX_USES,
                \* getattr(settings, "RESPONDENT_LINK_MAX_USES", 1)
    schedules,  \* RespondentInviteSchedule rows
    runs,       \* RespondentInviteScheduleRun rows
    outbox,     \* the emails the mail provider has accepted
    job,        \* the schedule request in flight
    schedule_refs
                \* number of schedule references drawn from uuid.uuid4 so far

vars == <<now, clients, invites, responses, nonces, client_ids, issued, req,
          last,
          RESPONDENT_LINK_DEFAULT_MAX_USES,
          schedules, runs, outbox, job, schedule_refs>>

\* The tables and the request of the scheduling endpoints.
scheduling == <<schedules, runs, outbox, job, schedule_refs>>

-----------------------------------------------------------------------------
(* Bounds of the model *)

MaxTime == 390
ShortTime == 48
MaxInvites == 2
MaxClients == 4
MaxResponses == 3
MaxUsesSetting == 2
MaxSchedules == 2
MaxTokens == 4
BindTime == 2

-----------------------------------------------------------------------------
(* Program constants *)

RESPONDENT_LINK_MAX_AGE_SECONDS == 1209600
RESPONDENT_LINK_DEFAULT_TTL_HOURS == 48
SECONDS_PER_HOUR == 3600
MINUTES_PER_HOUR == 60
HOURS_PER_DAY == 24
FIRST_RUN_HOUR == 9
_MAX_CYCLES == 99
_MINUTES_BUFFER == 5

_FREQUENCY_MAP ==
    "day" :> 1 @@ "week" :> 7 @@ "fortnight" :> 14 @@ "month" :> 30
    @@ "three-months" :> 90

None == "None"
SECRET_KEY == "SECRET_KEY"

Owners == {1, 2}
Workers == {1, 2}

\* Assessment rows in Meta.ordering = ("title",) order.
AssessmentTable ==
    << [slug |-> "gad7", status |-> "published", created_by |-> 0],
       [slug |-> "mood", status |-> "draft", created_by |-> 1],
       [slug |-> "phq9", status |-> "published", created_by |-> 0] >>

\* Client rows present at start: one client of each clinician.
InitialClients ==
    { [id |-> 1, owner |-> 1, slug |-> "alex", email |-> "alex@example.com",
       first_name |-> "Alex"],
      [id |-> 2, owner |-> 2, slug |-> "sam", email |-> "sam@example.com",
       first_name |-> "Sam"] }

-----------------------------------------------------------------------------
(* Python helpers *)

Range(s) == { s[i] : i \in 1..Len(s) }

\* list(dict.fromkeys(slug for slug in assessment_slugs if slug))
RECURSIVE Dedup(_)
Dedup(s) ==
    IF s = <<>> THEN <<>>
    ELSE LET init == Dedup(SubSeq(s, 1, Len(s) - 1))
             x == s[Len(s)]
         IN IF x = "" \/ x \in Range(init) THEN init ELSE Append(init, x)

Max(a, b) == IF a >= b THEN a ELSE b

-----------------------------------------------------------------------------
(* Token codec: django.core.signing as used by _serialise_payload and      *)
(* _deserialise_payload.  A token string is value:timestamp:signature; the *)
(* signature is a keyed MAC of value and timestamp, which only the holder  *)
(* of the key can produce and which matches no other value or timestamp.   *)

Signature(key, data, ts) == [key |-> key, data |-> data, ts |-> ts]

signing_dumps(data, ts) ==
    [data |-> data, ts |-> ts, sig |-> Signature(SECRET_KEY, data, ts)]

\* Variant: the signature is checked for the key only, not for the value
\* and timestamp it was made over.
signing_loads_key_only(token, max_age, at) ==
    IF token.sig.key # SECRET_KEY
    THEN "BadSignature"
    ELSE IF (at - token.ts) * SECONDS_PER_HOUR > max_age
         THEN "SignatureExpired"
         ELSE "ok"

\* signing.loads: the signature is verified before the age is.
signing_loads(token, max_age, at) ==
    IF token.sig # Signature(SECRET_KEY, token.data, token.ts)
    THEN "BadSignature"
    ELSE IF (at - token.ts) * SECONDS_PER_HOUR > max_age
         THEN "SignatureExpired"
         ELSE "ok"

RespondentLinkPayload(owner_id, assessments, mode, client_slug, share_results, pending_client, nonce) ==
    [owner_id |-> owner_id, assessments |-> assessments, mode |-> mode,
     client_slug |-> client_slug, share_results |-> share_results,
     pending_client |-> pending_client, nonce |-> nonce,
     invite_id |-> 0, max_uses |-> 1, uses |-> 0, expires_at |-> -1]

NoPayload == RespondentLinkPayload(0, <<>>, "", None, FALSE, FALSE, 0)

_serialise_payload(payload, at) ==
    signing_dumps([owner |-> payload.owner_id,
                   assessments |-> payload.assessments,
                   mode |-> payload.mode,
                   client |-> payload.client_slug,
                   share |-> payload.share_results,
                   pending |-> payload.pending_client,
                   nonce |-> payload.nonce], at)

\* Variant: share_results is read from a key the payload does not have.
_deserialise_payload_share_lost(token, at) ==
    LET loaded == signing_loads(token, RESPONDENT_LINK_MAX_AGE_SECONDS, at)
        data == token.data
    IN IF loaded # "ok"
       THEN [outcome |-> loaded, payload |-> NoPayload]
       ELSE [outcome |-> "ok",
             payload |-> RespondentLinkPayload(
                 data.owner, data.assessments, data.mode,
                 IF data.client = "" THEN None ELSE data.client,
                 FALSE, data.pending, data.nonce)]

\* Variant: signing.loads is called with max_age=None, so no token is too
\* old.
_deserialise_payload_ageless(token, at) ==
    LET loaded == signing_loads(token, RESPONDENT_LINK_MAX_AGE_SECONDS, token.ts)
        data == token.data
    IN IF loaded # "ok"
       THEN [outcome |-> loaded, payload |-> NoPayload]
       ELSE [outcome |-> "ok",
             payload |-> RespondentLinkPayload(
                 data.owner, data.assessments, data.mode,
                 IF data.client = "" THEN None ELSE data.client,
                 data.share, data.pending, data.nonce)]

\* The outcome of decoding and, when it is "ok", the decoded payload.
_deserialise_payload(token, at) ==
    LET loaded == signing_loads(token, RESPONDENT_LINK_MAX_AGE_SECONDS, at)
        data == token.data
    IN IF loaded # "ok"
       THEN [outcome |-> loaded, payload |-> NoPayload]
       ELSE [outcome |-> "ok",
             payload |-> RespondentLinkPayload(
                 data.owner, data.assessments, data.mode,
                 IF data.client = "" THEN None ELSE data.client,
                 data.share, data.pending, data.nonce)]

NoToken == signing_dumps([owner |-> 0, assessments |-> <<>>, mode |-> "",
                          client |-> None, share |-> FALSE, pending |-> FALSE,
                          nonce |-> 0], 0)

-----------------------------------------------------------------------------
(* Invite store *)

ClientById(cs, id) == CHOOSE c \in cs : c.id = id

\* Variant: the client is looked up by its slug alone.
ClientOfOwner_any_owner(cs, owner_id, slug) ==
    IF \E c \in cs : c.slug = slug
    THEN (CHOOSE c \in cs : c.slug = slug).id
    ELSE 0

\* Client.objects.filter(owner_id=owner_id, slug=slug).first(), as an id
ClientOfOwner(cs, owner_id, slug) ==
    IF \E c \in cs : c.owner = owner_id /\ c.slug = slug
    THEN (CHOOSE c \in cs : c.owner = owner_id /\ c.slug = slug).id
    ELSE 0

\* RespondentInvite.objects.filter(token=token).first(); token is unique
InviteByToken(inv, token) ==
    IF \E i \in inv : i.token = token
    THEN CHOOSE i \in inv : i.token = token
    ELSE [id |-> 0]

NextId(rows) == Cardinality(rows) + 1

\* Variant: the invite is still good at the instant it expires.
is_expired_strict(invite, at) == at > invite.expires_at

\* RespondentInvite.is_expired
is_expired(invite, at) == at >= invite.expires_at

_validate_assessments(owner_id, assessment_slugs) ==
    LET slugs == Dedup(assessment_slugs)
        visible(a) == a.status = "published" \/ a.created_by = owner_id
        found == SelectSeq(AssessmentTable,
                           LAMBDA a : a.slug \in Range(slugs) /\ visible(a))
        found_slugs == { found[i].slug : i \in 1..Len(found) }
    IN IF slugs = <<>>
       THEN [error |-> "At least one assessment must be selected.",
             assessments |-> <<>>]
       ELSE IF \E s \in Range(slugs) : s \notin found_slugs
            THEN [error |-> "Unknown assessments", assessments |-> <<>>]
            ELSE [error |-> "",
                  assessments |-> [i \in 1..Len(found) |-> found[i].slug]]

\* The row _create_invite_record inserts; callers in this program pass no
\* valid_from, expires_at or max_uses, so the defaults apply.
_create_invite_record(inv, token, payload, owner_id, client, at) ==
    [id |-> NextId(inv),
     token |-> token,
     owner |-> owner_id,
     assessments |-> payload.assessments,
     mode |-> payload.mode,
     client |-> client,
     share_results |-> payload.share_results,
     pending_client |-> payload.pending_client,
     expires_at |-> at + RESPONDENT_LINK_DEFAULT_TTL_HOURS,
     max_uses |-> Max(1, RESPONDENT_LINK_DEFAULT_MAX_USES),
     uses |-> 0,
     used_at |-> -1]

\* issue_link_token: the error raised ("" when none), the token returned and
\* the Invite rows afterwards.
issue_link_token(inv, cs, owner_id, assessments, mode, client_slug, share_results, nonce, at) ==
    LET validated == _validate_assessments(owner_id, assessments)
        fail(msg) == [error |-> msg, token |-> NoToken, invites |-> inv]
        client == IF mode = "linked"
                  THEN ClientOfOwner(cs, owner_id, client_slug) ELSE 0
        resolved_client_slug ==
            IF mode = "linked"
            THEN (IF client = 0 THEN None ELSE ClientById(cs, client).slug)
            ELSE IF client_slug = "" THEN None ELSE client_slug
        payload == RespondentLinkPayload(
            owner_id, validated.assessments, mode, resolved_client_slug,
            share_results, mode # "linked", nonce)
        token == _serialise_payload(payload, at)
    IN IF validated.error # "" THEN fail(validated.error)
       ELSE IF mode \notin {"self-entry", "linked"}
       THEN fail("Unsupported respondent mode.")
       ELSE IF mode = "linked" /\ client_slug \in {"", None}
       THEN fail("Linked respondent links require an existing client.")
       ELSE IF mode = "linked" /\ client = 0
       THEN fail("Client could not be found for this clinician.")
       ELSE [error |-> "", token |-> token,
             invites |-> inv \cup
                 {_create_invite_record(inv, token, payload, owner_id,
                                        client, at)}]

\* RespondentInvite.mark_used (models.py); no caller in the program.
mark_used(invite, at) == [invite EXCEPT !.uses = @ + 1, !.used_at = at]

\* Variant: the use count is compared with > where the code has >=.
ResolveOutcome_one_more(inv, cs, token, at) ==
    LET decoded == _deserialise_payload(token, at)
        payload == decoded.payload
        invite == InviteByToken(inv, token)
    IN IF decoded.outcome # "ok" THEN decoded.outcome
       ELSE IF invite.id = 0 THEN "NotFound"
       ELSE IF invite.owner # payload.owner_id THEN "OwnerMismatch"
       ELSE IF invite.client # 0
               /\ ClientById(cs, invite.client).slug # payload.client_slug
       THEN "ClientMismatch"
       ELSE IF invite.pending_client # payload.pending_client
       THEN "PendingMismatch"
       ELSE IF is_expired(invite, at) THEN "RowExpired"
       ELSE IF invite.uses > invite.max_uses THEN "ExhaustedUses"
       ELSE "Valid"

\* resolve_link_token, the checks in the order of the code: the site that
\* raises, or Valid.
ResolveOutcome(inv, cs, token, at) ==
    LET decoded == _deserialise_payload(token, at)
        payload == decoded.payload
        invite == InviteByToken(inv, token)
    IN IF decoded.outcome # "ok" THEN decoded.outcome
       ELSE IF invite.id = 0 THEN "NotFound"
       ELSE IF invite.owner # payload.owner_id THEN "OwnerMismatch"
       ELSE IF invite.client # 0
               /\ ClientById(cs, invite.client).slug # payload.client_slug
       THEN "ClientMismatch"
       ELSE IF invite.pending_client # payload.pending_client
       THEN "PendingMismatch"
       ELSE IF is_expired(invite, at) THEN "RowExpired"
       ELSE IF invite.uses >= invite.max_uses THEN "ExhaustedUses"
       ELSE "Valid"

\* Variant: a successful resolution counts as a use.
ResolveWrites_consuming(inv, cs, token, at) ==
    IF ResolveOutcome(inv, cs, token, at) = "Valid"
    THEN (inv \ {InviteByToken(inv, token)})
         \cup {mark_used(InviteByToken(inv, token), at)}
    ELSE inv

\* The Invite rows after resolve_link_token has run: it writes none.
ResolveWrites(inv, cs, token, at) == inv

\* resolve_link_token: the outcome (the raise site, or Valid), the payload
\* returned when Valid, and the Invite rows afterwards.
resolve_link_token(inv, cs, token, at) ==
    LET outcome == ResolveOutcome(inv, cs, token, at)
        invite == InviteByToken(inv, token)
        payload == _deserialise_payload(token, at).payload
    IN [outcome |-> outcome,
        payload |-> IF outcome = "Valid"
                    THEN [payload EXCEPT !.invite_id = invite.id,
                                         !.max_uses = invite.max_uses,
                                         !.uses = invite.uses,
                                         !.expires_at = invite.expires_at]
                    ELSE NoPayload,
        invites |-> ResolveWrites(inv, cs, token, at)]

\* str(exc) of the RespondentLinkError raised at each site.
Message(outcome) ==
    CASE outcome = "BadSignature" ->
           "The respondent link is invalid or has been tampered with."
      [] outcome = "SignatureExpired" ->
           "This respondent link has expired. Please request a new invitation."
      [] outcome = "NotFound" ->
           "The respondent link is invalid or has expired. Please request a new invitation."
      [] outcome = "OwnerMismatch" ->
           "The respondent link is invalid or has been tampered with."
      [] outcome = "ClientMismatch" ->
           "The respondent link is no longer valid for this client."
      [] outcome = "PendingMismatch" ->
           "The respondent invitation state is inconsistent. Please request a new link."
      [] outcome = "RowExpired" ->
           "This respondent link has expired. Please request a new invitation."
      [] outcome = "ExhaustedUses" ->
           "This respondent link has already been used."
      [] OTHER -> ""

\* Variant: the count is incremented without looking at max_uses.
mark_invite_used_unguarded(inv, token, at) ==
    LET invite == InviteByToken(inv, token)
    IN IF invite.id = 0 THEN inv
       ELSE (inv \ {invite}) \cup {mark_used(invite, at)}

\* mark_invite_used: one transaction under the row lock.
mark_invite_used(inv, token, at) ==
    LET invite == InviteByToken(inv, token)
    IN IF invite.id = 0 THEN inv
       ELSE IF invite.uses >= invite.max_uses THEN inv
       ELSE (inv \ {invite}) \cup {mark_used(invite, at)}

\* Variant: the refreshed payload keeps the mode of the payload it replaces.
refresh_token_for_client_same_mode(inv, cs, payload, client_slug, nonce, at) ==
    LET client == ClientOfOwner(cs, payload.owner_id, client_slug)
        refreshed_payload == RespondentLinkPayload(
            payload.owner_id, payload.assessments, payload.mode, client_slug,
            payload.share_results, FALSE, nonce)
        token == _serialise_payload(refreshed_payload, at)
        existing_invite ==
            IF payload.invite_id # 0 /\ \E i \in inv : i.id = payload.invite_id
            THEN CHOOSE i \in inv : i.id = payload.invite_id
            ELSE [id |-> 0]
    IN IF client = 0
       THEN [error |-> "Client could not be found for this clinician.",
             token |-> NoToken, invites |-> inv]
       ELSE IF existing_invite.id # 0 /\ existing_invite.client \in {0, client}
       THEN [error |-> "", token |-> token,
             invites |-> (inv \ {existing_invite}) \cup
                 {[existing_invite EXCEPT !.token = token,
                                          !.client = client,
                                          !.pending_client = FALSE,
                                          !.uses = 0]}]
       ELSE [error |-> "", token |-> token,
             invites |-> inv \cup
                 {_create_invite_record(inv, token, refreshed_payload,
                                        payload.owner_id, client, at)}]

\* Variant: the in-place update leaves pending_client as it was.
refresh_token_for_client_still_pending(inv, cs, payload, client_slug, nonce, at) ==
    LET client == ClientOfOwner(cs, payload.owner_id, client_slug)
        refreshed_payload == RespondentLinkPayload(
            payload.owner_id, payload.assessments, "linked", client_slug,
            payload.share_results, FALSE, nonce)
        token == _serialise_payload(refreshed_payload, at)
        existing_invite ==
            IF payload.invite_id # 0 /\ \E i \in inv : i.id = payload.invite_id
            THEN CHOOSE i \in inv : i.id = payload.invite_id
            ELSE [id |-> 0]
    IN IF client = 0
       THEN [error |-> "Client could not be found for this clinician.",
             token |-> NoToken, invites |-> inv]
       ELSE IF existing_invite.id # 0 /\ existing_invite.client \in {0, client}
       THEN [error |-> "", token |-> token,
             invites |-> (inv \ {existing_invite}) \cup
                 {[existing_invite EXCEPT !.token = token,
                                          !.client = client,
                                          !.uses = 0]}]
       ELSE [error |-> "", token |-> token,
             invites |-> inv \cup
                 {_create_invite_record(inv, token, refreshed_payload,
                                        payload.owner_id, client, at)}]

\* Variant: the in-place update inserts the refreshed row beside the row it
\* was to replace.
refresh_token_for_client_keeping_old(inv, cs, payload, client_slug, nonce, at) ==
    LET client == ClientOfOwner(cs, payload.owner_id, client_slug)
        refreshed_payload == RespondentLinkPayload(
            payload.owner_id, payload.assessments, "linked", client_slug,
            payload.share_results, FALSE, nonce)
        token == _serialise_payload(refreshed_payload, at)
        existing_invite ==
            IF payload.invite_id # 0 /\ \E i \in inv : i.id = payload.invite_id
            THEN CHOOSE i \in inv : i.id = payload.invite_id
            ELSE [id |-> 0]
    IN IF client = 0
       THEN [error |-> "Client could not be found for this clinician.",
             token |-> NoToken, invites |-> inv]
       ELSE [error |-> "", token |-> token,
             invites |-> inv \cup
                 {_create_invite_record(inv, token, refreshed_payload,
                                        payload.owner_id, client, at)}]

\* Variant: the Invite row is rewritten in place whatever client it has.
refresh_token_for_client_always_in_place(inv, cs, payload, client_slug, nonce, at) ==
    LET client == ClientOfOwner(cs, payload.owner_id, client_slug)
        refreshed_payload == RespondentLinkPayload(
            payload.owner_id, payload.assessments, "linked", client_slug,
            payload.share_results, FALSE, nonce)
        token == _serialise_payload(refreshed_payload, at)
        existing_invite ==
            IF payload.invite_id # 0 /\ \E i \in inv : i.id = payload.invite_id
            THEN CHOOSE i \in inv : i.id = payload.invite_id
            ELSE [id |-> 0]
    IN IF client = 0
       THEN [error |-> "Client could not be found for this clinician.",
             token |-> NoToken, invites |-> inv]
       ELSE IF existing_invite.id # 0
       THEN [error |-> "", token |-> token,
             invites |-> (inv \ {existing_invite}) \cup
                 {[existing_invite EXCEPT !.token = token,
                                          !.client = client,
                                          !.pending_client = FALSE,
                                          !.uses = 0]}]
       ELSE [error |-> "", token |-> token,
             invites |-> inv \cup
                 {_create_invite_record(inv, token, refreshed_payload,
                                        payload.owner_id, client, at)}]

\* refresh_token_for_client: the error raised ("" when none), the token
\* returned and the Invite rows afterwards.
refresh_token_for_client(inv, cs, payload, client_slug, nonce, at) ==
    LET client == ClientOfOwner(cs, payload.owner_id, client_slug)
        refreshed_payload == RespondentLinkPayload(
            payload.owner_id, payload.assessments, "linked", client_slug,
            payload.share_results, FALSE, nonce)
        token == _serialise_payload(refreshed_payload, at)
        existing_invite ==
            IF payload.invite_id # 0 /\ \E i \in inv : i.id = payload.invite_id
            THEN CHOOSE i \in inv : i.id = payload.invite_id
            ELSE [id |-> 0]
    IN IF client = 0
       THEN [error |-> "Client could not be found for this clinician.",
             token |-> NoToken, invites |-> inv]
       ELSE IF existing_invite.id # 0 /\ existing_invite.client \in {0, client}
       THEN [error |-> "", token |-> token,
             invites |-> (inv \ {existing_invite}) \cup
                 {[existing_invite EXCEPT !.token = token,
                                          !.client = client,
                                          !.pending_client = FALSE,
                                          !.uses = 0]}]
       ELSE [error |-> "", token |-> token,
             invites |-> inv \cup
                 {_create_invite_record(inv, token, refreshed_payload,
                                        payload.owner_id, client, at)}]

-----------------------------------------------------------------------------
(* Requests *)

NoBody == [mode |-> "", pendingClient |-> FALSE, client |-> None,
           maxUses |-> 0, uses |-> 0, expiresAt |-> -1, assessments |-> <<>>]

NoClientRow == [id |-> 0, owner |-> 0, slug |-> "", email |-> "",
                first_name |-> ""]

Idle == [pc |-> "idle", token |-> NoToken, link |-> NoPayload,
         email |-> "", first_name |-> "", existing |-> NoClientRow,
         slug |-> "", client |-> NoClientRow, refreshed |-> NoToken]

\* No schedule request is in flight.
NoJob == [pc |-> "idle", reference |-> 0, owner |-> 0, client |-> NoClientRow,
          assessments |-> <<>>, share_results |-> FALSE, cycles |-> 0,
          first_run |-> 0, frequency_days |-> 0, index |-> 0]

\* A response: the endpoint, its outcome and its HTTP status.  A
\* specification that starts from Unobserved keeps no record of responses.
Response(op, outcome, status) ==
    [op |-> op, outcome |-> outcome, status |-> status]

Unobserved == Response("off", "", 0)

Answers(op, outcome, status) ==
    last' = IF last = Unobserved THEN last ELSE Response(op, outcome, status)

InitStore ==
    /\ now = 0
    /\ clients = InitialClients
    /\ invites = {}
    /\ responses = {}
    /\ nonces = 0
    /\ client_ids = Cardinality(InitialClients)
    /\ issued = {}
    /\ req = [w \in Workers |-> Idle]
    /\ RESPONDENT_LINK_DEFAULT_MAX_USES \in 1..MaxUsesSetting
    /\ schedules = {}
    /\ runs = {}
    /\ outbox = {}
    /\ job = NoJob
    /\ schedule_refs = 0

Init == InitStore /\ last = Unobserved

InitObserved == InitStore /\ last = Response("none", "", 0)

\* The clock moves on by d hours, no further than until.
Tick(d, until) ==
    /\ now + d <= until
    /\ now' = now + d
    /\ UNCHANGED <<clients, invites, responses, nonces, client_ids, issued,
                   req, last, RESPONDENT_LINK_DEFAULT_MAX_USES, scheduling>>

\* A new request is taken by the lowest idle worker.
Accepts(w) ==
    /\ req[w].pc = "idle"
    /\ \A v \in Workers : v < w => req[v].pc # "idle"

\* The handler of worker w returns its response.
Finish(w, op, outcome, status) ==
    /\ req' = [req EXCEPT ![w] = Idle]
    /\ Answers(op, outcome, status)

\* RespondentLinkIssueView.post, lines 135-146: what it passes on to
\* The arguments RespondentLinkIssueView.post makes of the request body in.
IssueParams(in) ==
    [owner_id |-> in.owner,
     assessments |-> in.assessments,
     mode |-> IF in.mode = "" THEN "self-entry" ELSE in.mode,
     client_slug |-> IF in.client_slug = "" THEN None ELSE in.client_slug,
     share_results |-> in.share_results]

\* issue_link_token for the request body in.
IssueCall(inv, cs, in, nonce, at) ==
    LET p == IssueParams(in)
    IN issue_link_token(inv, cs, p.owner_id, p.assessments, p.mode,
                        p.client_slug, p.share_results, nonce, at)

\* RespondentLinkIssueView.post, for the authenticated clinician in.owner:
\* 201 with the token, or 400 with the error.
RespondentLinkIssueView(in) ==
    LET r == IssueCall(invites, clients, in, nonces + 1, now)
    IN /\ Cardinality(invites) < MaxInvites
       /\ invites' = r.invites
       /\ nonces' = IF r.error = "" THEN nonces + 1 ELSE nonces
       /\ issued' = IF r.error = "" THEN issued \cup {r.token} ELSE issued
       /\ Answers("issue", r.error, IF r.error = "" THEN 201 ELSE 400)
       /\ UNCHANGED <<now, clients, responses, client_ids, req,
                      RESPONDENT_LINK_DEFAULT_MAX_USES, scheduling>>

\* RespondentLinkResolveView._build_client_payload: the slug shown, or
\* "missing" when the payload names a client the owner does not have.
_build_client_payload(cs, link_payload) ==
    IF link_payload.client_slug \in {None, ""} THEN None
    ELSE IF ClientOfOwner(cs, link_payload.owner_id, link_payload.client_slug) = 0
         THEN "missing"
         ELSE link_payload.client_slug

\* What RespondentLinkResolveView.post answers for a token: the status,
\* the outcome and, on 200, the body of _build_resolve_response.
ResolveResponse(inv, cs, token, at) ==
    LET r == resolve_link_token(inv, cs, token, at)
        client_payload == _build_client_payload(cs, r.payload)
    IN IF r.outcome # "Valid"
       THEN [status |-> 400, outcome |-> r.outcome, body |-> NoBody]
       ELSE IF client_payload = "missing"
       THEN [status |-> 400, outcome |-> "ClientNotFound", body |-> NoBody]
       ELSE [status |-> 200, outcome |-> "Valid",
             body |-> [mode |-> r.payload.mode,
                       pendingClient |-> r.payload.pending_client,
                       client |-> client_payload,
                       maxUses |-> r.payload.max_uses,
                       uses |-> r.payload.uses,
                       expiresAt |-> r.payload.expires_at,
                       assessments |-> r.payload.assessments]]

\* RespondentLinkResolveView.post
RespondentLinkResolveView(token) ==
    LET v == ResolveResponse(invites, clients, token, now)
    IN
    /\ invites' = resolve_link_token(invites, clients, token, now).invites
    /\ Answers("resolve", v.outcome, v.status)
    /\ UNCHANGED <<now, clients, responses, nonces, client_ids, issued, req,
                   RESPONDENT_LINK_DEFAULT_MAX_USES, scheduling>>

-----------------------------------------------------------------------------
(* RespondentAssessmentDetailView.post: the respondent fetches one of the   *)
(* assessments of the invitation.                                           *)

\* What RespondentAssessmentDetailView.post answers for a token and an
\* assessment slug.
FetchResponse(inv, cs, token, slug, at) ==
    LET r == resolve_link_token(inv, cs, token, at)
        published == { AssessmentTable[i].slug :
                         i \in { j \in 1..Len(AssessmentTable) :
                                   AssessmentTable[j].status = "published" } }
    IN IF r.outcome # "Valid"
       THEN [status |-> 400, outcome |-> r.outcome]
       ELSE IF slug \notin Range(r.payload.assessments)
       THEN [status |-> 403, outcome |-> "AssessmentNotInInvite"]
       ELSE IF slug \notin published
       THEN [status |-> 404, outcome |-> "Unavailable"]
       ELSE [status |-> 200, outcome |-> "Fetched"]

\* RespondentAssessmentDetailView.post
RespondentAssessmentDetailView(token, slug) ==
    LET v == FetchResponse(invites, clients, token, slug, now)
    IN
    /\ invites' = resolve_link_token(invites, clients, token, now).invites
    /\ Answers("fetch", v.outcome, v.status)
    /\ UNCHANGED <<now, clients, responses, nonces, client_ids, issued, req,
                   RESPONDENT_LINK_DEFAULT_MAX_USES, scheduling>>

-----------------------------------------------------------------------------
(* RespondentAssessmentResponseView.post: resolve, then validate and save,  *)
(* then mark the invite used.                                               *)

Submitting == { w \in Workers : req[w].pc \in {"submit_save", "submit_mark"} }

\* resolve_link_token(token), lines 818-821: 400 when it raises
SubmitResolve(w, token) ==
    LET r == resolve_link_token(invites, clients, token, now)
    IN /\ Accepts(w)
       /\ invites' = r.invites
       /\ IF r.outcome # "Valid"
          THEN Finish(w, "submit", r.outcome, 400)
          ELSE /\ Cardinality(responses) + Cardinality(Submitting)
                    < MaxResponses
               /\ req' = [req EXCEPT ![w] = [Idle EXCEPT !.pc = "submit_save",
                                                         !.token = token,
                                                         !.link = r.payload]]
               /\ UNCHANGED last
       /\ UNCHANGED <<now, clients, responses, nonces, client_ids, issued,
                      RESPONDENT_LINK_DEFAULT_MAX_USES, scheduling>>

\* Variant: the assessment is not compared with the invitation's.
SubmitRefusal_any_assessment(cs, link, assessment, client_slug, answers_ok) ==
    LET matches == { c \in cs : c.slug = client_slug }
    IN IF assessment \notin { AssessmentTable[i].slug :
                                i \in 1..Len(AssessmentTable) }
       THEN [outcome |-> "InvalidAssessment", status |-> 400]
       ELSE IF client_slug # None /\ matches = {}
       THEN [outcome |-> "InvalidClient", status |-> 400]
       ELSE IF client_slug # None /\ Cardinality(matches) > 1
       THEN [outcome |-> "MultipleObjectsReturned", status |-> 500]
       ELSE IF link.client_slug \notin {None, ""}
               /\ (client_slug = None \/ client_slug # link.client_slug)
       THEN [outcome |-> "ClientMismatch", status |-> 403]
       ELSE IF link.client_slug \in {None, ""} /\ link.pending_client
       THEN [outcome |-> "PendingClient", status |-> 403]
       ELSE IF ~answers_ok
       THEN [outcome |-> "InvalidResponses", status |-> 400]
       ELSE [outcome |-> "", status |-> 201]

\* Why a submission is refused before anything is saved ("" when it is not)
\* and the HTTP status: serializer.is_valid, the invitation checks of lines
\* 826-836 and the validation inside AssessmentResponseSerializer.create.
SubmitRefusal(cs, link, assessment, client_slug, answers_ok) ==
    LET matches == { c \in cs : c.slug = client_slug }
    IN IF assessment \notin { AssessmentTable[i].slug :
                                i \in 1..Len(AssessmentTable) }
       THEN [outcome |-> "InvalidAssessment", status |-> 400]
       ELSE IF client_slug # None /\ matches = {}
       THEN [outcome |-> "InvalidClient", status |-> 400]
       ELSE IF client_slug # None /\ Cardinality(matches) > 1
       THEN [outcome |-> "MultipleObjectsReturned", status |-> 500]
       ELSE IF assessment \notin Range(link.assessments)
       THEN [outcome |-> "AssessmentNotInInvite", status |-> 403]
       ELSE IF link.client_slug \notin {None, ""}
               /\ (client_slug = None \/ client_slug # link.client_slug)
       THEN [outcome |-> "ClientMismatch", status |-> 403]
       ELSE IF link.client_slug \in {None, ""} /\ link.pending_client
       THEN [outcome |-> "PendingClient", status |-> 403]
       ELSE IF ~answers_ok
       THEN [outcome |-> "InvalidResponses", status |-> 400]
       ELSE [outcome |-> "", status |-> 201]

\* Variant: the invite is marked used as soon as the body has been read.
SubmitSave_marking(w, assessment, client_slug, answers_ok) ==
    LET r == req[w]
        refusal == SubmitRefusal(clients, r.link, assessment, client_slug,
                                 answers_ok)
        client == IF client_slug = None THEN 0
                  ELSE (CHOOSE c \in clients : c.slug = client_slug).id
    IN /\ r.pc = "submit_save"
       /\ invites' = mark_invite_used(invites, r.token, now)
       /\ IF refusal.outcome # ""
          THEN /\ Finish(w, "submit", refusal.outcome, refusal.status)
               /\ UNCHANGED responses
          ELSE /\ responses' = responses \cup
                     {[id |-> NextId(responses), assessment |-> assessment,
                       client |-> client, token |-> r.token]}
               /\ req' = [req EXCEPT ![w].pc = "submit_mark"]
               /\ UNCHANGED last
       /\ UNCHANGED <<now, clients, nonces, client_ids, issued,
                      RESPONDENT_LINK_DEFAULT_MAX_USES, scheduling>>

\* lines 823-838: the request body is read, checked and saved
SubmitSave(w, assessment, client_slug, answers_ok) ==
    LET r == req[w]
        refusal == SubmitRefusal(clients, r.link, assessment, client_slug,
                                 answers_ok)
        client == IF client_slug = None THEN 0
                  ELSE (CHOOSE c \in clients : c.slug = client_slug).id
    IN /\ r.pc = "submit_save"
       /\ IF refusal.outcome # ""
          THEN /\ Finish(w, "submit", refusal.outcome, refusal.status)
               /\ UNCHANGED responses
          ELSE /\ responses' = responses \cup
                     {[id |-> NextId(responses), assessment |-> assessment,
                       client |-> client, token |-> r.token]}
               /\ req' = [req EXCEPT ![w].pc = "submit_mark"]
               /\ UNCHANGED last
       /\ UNCHANGED <<now, clients, invites, nonces, client_ids, issued,
                      RESPONDENT_LINK_DEFAULT_MAX_USES, scheduling>>

\* mark_invite_used(token) and the 201 response, lines 840-843
SubmitMark(w) ==
    /\ req[w].pc = "submit_mark"
    /\ invites' = mark_invite_used(invites, req[w].token, now)
    /\ Finish(w, "submit", "Recorded", 201)
    /\ UNCHANGED <<now, clients, responses, nonces, client_ids, issued,
                   RESPONDENT_LINK_DEFAULT_MAX_USES, scheduling>>

-----------------------------------------------------------------------------
(* RespondentLinkClientView.post: resolve, upsert the client, refresh the   *)
(* token, resolve the refreshed token.                                      *)

\* django.utils.text.slugify on the names the respondents submit
slugify(base) ==
    CASE base = "Jordan" -> "jordan"
      [] base = "Alex" -> "alex"
      [] base = "jordan@example.com" -> "jordanexamplecom"
      [] base = "alex@example.com" -> "alexexamplecom"
      [] OTHER -> ""

RECURSIVE UniqueSlugFrom(_, _, _, _)
UniqueSlugFrom(cs, owner_id, base_slug, suffix) ==
    LET slug == IF suffix = 1 THEN base_slug
                ELSE base_slug \o "-" \o ToString(suffix)
    IN IF \E c \in cs : c.owner = owner_id /\ c.slug = slug
       THEN UniqueSlugFrom(cs, owner_id, base_slug, suffix + 1)
       ELSE slug

generate_unique_client_slug(cs, owner_id, base) ==
    UniqueSlugFrom(cs, owner_id,
                   IF slugify(base) = "" THEN "client" ELSE slugify(base), 1)

\* details["base_name"] of _normalize_client_details
BaseName(first_name, email) ==
    IF first_name # "" THEN first_name
    ELSE IF email # "" THEN email ELSE "client"

Creating == { w \in Workers :
                req[w].pc \in {"bind_lookup", "bind_slug", "bind_create"} }

\* Variant: the pending check of line 650 is left out.
BindResolve_unchecked(w, token) ==
    LET r == resolve_link_token(invites, clients, token, now)
    IN /\ Accepts(w)
       /\ invites' = r.invites
       /\ IF r.outcome # "Valid"
          THEN Finish(w, "bind", r.outcome, 400)
          ELSE /\ client_ids + Cardinality(Creating) < MaxClients
               /\ req' = [req EXCEPT ![w] = [Idle EXCEPT !.pc = "bind_lookup",
                                                         !.token = token,
                                                         !.link = r.payload]]
               /\ UNCHANGED last
       /\ UNCHANGED <<now, clients, responses, nonces, client_ids, issued,
                      RESPONDENT_LINK_DEFAULT_MAX_USES, scheduling>>

\* lines 644-653: resolve (400 when it raises) and the pending check (400)
BindResolve(w, token) ==
    LET r == resolve_link_token(invites, clients, token, now)
    IN /\ Accepts(w)
       /\ invites' = r.invites
       /\ IF r.outcome # "Valid"
          THEN Finish(w, "bind", r.outcome, 400)
          ELSE IF ~r.payload.pending_client
          THEN Finish(w, "bind", "AlreadyLinked", 400)
          ELSE /\ client_ids + Cardinality(Creating) < MaxClients
               /\ req' = [req EXCEPT ![w] = [Idle EXCEPT !.pc = "bind_lookup",
                                                         !.token = token,
                                                         !.link = r.payload]]
               /\ UNCHANGED last
       /\ UNCHANGED <<now, clients, responses, nonces, client_ids, issued,
                      RESPONDENT_LINK_DEFAULT_MAX_USES, scheduling>>

\* Client.objects.filter(owner=owner, email=email).first(), newest first
ClientByEmail(cs, owner_id, email) ==
    LET found == { c \in cs : c.owner = owner_id /\ c.email = email }
    IN IF email # "" /\ found # {}
       THEN CHOOSE c \in found : \A d \in found : c.id >= d.id
       ELSE NoClientRow

\* str.lower() on the addresses a request may carry
lower(s) ==
    CASE s = "Alex@Example.com" -> "alex@example.com"
      [] OTHER -> s

\* _normalize_client_details, lines 681-705: the email is lower-cased
_normalize_client_details(payload) ==
    [email |-> lower(payload.email), first_name |-> payload.first_name]

\* _normalize_client_details and _upsert_client, lines 716-718: the
\* submitted details are read and the client looked up by (owner, email)
BindLookup(w, payload) ==
    LET details == _normalize_client_details(payload)
        existing == ClientByEmail(clients, req[w].link.owner_id, details.email)
    IN /\ req[w].pc = "bind_lookup"
       /\ req' = [req EXCEPT ![w].email = details.email,
                             ![w].first_name = details.first_name,
                             ![w].existing = existing,
                             ![w].pc = IF existing.id # 0 THEN "bind_update"
                                       ELSE "bind_slug"]
       /\ UNCHANGED <<now, clients, invites, responses, nonces, client_ids,
                      issued, last, RESPONDENT_LINK_DEFAULT_MAX_USES, scheduling>>

\* The row _upsert_client saves for an existing client, lines 721-732: a
\* submitted value replaces the stored one unless it is blank.
MergedClient(existing, first_name) ==
    [existing EXCEPT !.first_name = IF first_name # "" THEN first_name ELSE @]

\* _upsert_client, lines 720-734: existing.save() writes the whole row
BindUpdate(w) ==
    LET r == req[w]
        merged == MergedClient(r.existing, r.first_name)
    IN /\ r.pc = "bind_update"
       /\ clients' = { c \in clients : c.id # merged.id } \cup {merged}
       /\ req' = [req EXCEPT ![w].client = merged, ![w].pc = "bind_refresh"]
       /\ UNCHANGED <<now, invites, responses, nonces, client_ids, issued,
                      last, RESPONDENT_LINK_DEFAULT_MAX_USES, scheduling>>

\* _upsert_client, line 736: generate_unique_client_slug
BindSlug(w) ==
    LET r == req[w]
    IN /\ r.pc = "bind_slug"
       /\ req' = [req EXCEPT
                    ![w].slug = generate_unique_client_slug(
                                    clients, r.link.owner_id,
                                    BaseName(r.first_name, r.email)),
                    ![w].pc = "bind_create"]
       /\ UNCHANGED <<now, clients, invites, responses, nonces, client_ids,
                      issued, last, RESPONDENT_LINK_DEFAULT_MAX_USES, scheduling>>

\* The row Client.objects.create inserts, lines 737-749
NewClient(id, owner_id, slug, first_name, email) ==
    [id |-> id, owner |-> owner_id, slug |-> slug, email |-> email,
     first_name |-> BaseName(first_name, email)]

\* _upsert_client, lines 737-749: unique_together (owner, slug) makes the
\* insert fail, and the request end in 500, when the slug was taken meanwhile
BindCreate(w) ==
    LET r == req[w]
        row == NewClient(client_ids + 1, r.link.owner_id, r.slug,
                         r.first_name, r.email)
    IN /\ r.pc = "bind_create"
       /\ IF \E c \in clients : c.owner = row.owner /\ c.slug = row.slug
          THEN /\ Finish(w, "bind", "IntegrityError", 500)
               /\ UNCHANGED <<clients, client_ids>>
          ELSE /\ clients' = clients \cup {row}
               /\ client_ids' = client_ids + 1
               /\ req' = [req EXCEPT ![w].client = row,
                                     ![w].pc = "bind_refresh"]
               /\ UNCHANGED last
       /\ UNCHANGED <<now, invites, responses, nonces, issued,
                      RESPONDENT_LINK_DEFAULT_MAX_USES, scheduling>>

\* _refresh_link_token, line 752: refresh_token_for_client; the
\* RespondentLinkError it may raise is caught by nothing (500)
BindRefresh(w) ==
    LET r == req[w]
        f == refresh_token_for_client(invites, clients, r.link, r.client.slug,
                                      nonces + 1, now)
    IN /\ r.pc = "bind_refresh"
       /\ invites' = f.invites
       /\ IF f.error # ""
          THEN /\ Finish(w, "bind", "ClientNotFound", 500)
               /\ UNCHANGED nonces
          ELSE /\ req' = [req EXCEPT ![w].refreshed = f.token,
                                     ![w].pc = "bind_reresolve"]
               /\ nonces' = nonces + 1
               /\ UNCHANGED last
       /\ UNCHANGED <<now, clients, responses, client_ids, issued,
                      RESPONDENT_LINK_DEFAULT_MAX_USES, scheduling>>

\* _refresh_link_token, line 753, and the response: 201 with the refreshed
\* token, or 500 when resolve_link_token raises (nothing catches it)
BindReresolve(w) ==
    LET r == req[w]
        v == resolve_link_token(invites, clients, r.refreshed, now)
    IN /\ r.pc = "bind_reresolve"
       /\ invites' = v.invites
       /\ issued' = IF v.outcome = "Valid" THEN issued \cup {r.refreshed}
                    ELSE issued
       /\ IF v.outcome = "Valid" THEN Finish(w, "bind", "Bound", 201)
          ELSE Finish(w, "bind", v.outcome, 500)
       /\ UNCHANGED <<now, clients, responses, nonces, client_ids,
                      RESPONDENT_LINK_DEFAULT_MAX_USES, scheduling>>

-----------------------------------------------------------------------------
(* RespondentLinkEmailInviteView and RespondentLinkScheduleView: tokens     *)
(* issued for a client and sent by email, at once or on a schedule.  The    *)
(* instants of a schedule are counted in minutes.                           *)

\* datetime.strptime(str(value), "%Y-%m-%d").date() as the number of days
\* since the day the clock starts on, -1 when it raises ValueError
strptime_date(value) ==
    CASE value = "2024-01-01" -> 0
      [] value = "2024-01-03" -> 2
      [] OTHER -> -1

\* (str(frequency_value or "none").strip() or "none").lower()
normalise_frequency(value) ==
    CASE value \in {"", " "} -> "none"
      [] value = "Week" -> "week"
      [] value = " month" -> "month"
      [] OTHER -> value

\* _coerce_cycles: the request's number, 0 standing for one left out
_coerce_cycles(value) == Max(1, IF value = 0 THEN 1 ELSE value)

\* _determine_first_run_datetime, in minutes
_determine_first_run_datetime(start_date, at) ==
    LET first_run == (start_date * HOURS_PER_DAY + FIRST_RUN_HOUR)
                        * MINUTES_PER_HOUR
    IN IF first_run < at * MINUTES_PER_HOUR
       THEN at * MINUTES_PER_HOUR + _MINUTES_BUFFER
       ELSE first_run

NoConfig == [error |-> "", first_run |-> 0, frequency |-> "", cycles |-> 0,
             delta_days |-> 0]

\* Variant: no limit on the number of cycles.
_extract_schedule_config_unlimited(payload, at) ==
    LET fail(msg) == [NoConfig EXCEPT !.error = msg]
        start_date == strptime_date(payload.start_date)
        frequency == normalise_frequency(payload.frequency)
        cycles == _coerce_cycles(payload.cycles)
    IN IF payload.start_date = ""
       THEN fail("A schedule start date is required.")
       ELSE IF start_date < 0
       THEN fail("Schedule start date must be provided in YYYY-MM-DD format.")
       ELSE IF frequency \notin {"none"} \cup DOMAIN _FREQUENCY_MAP
       THEN fail("Unsupported schedule frequency.")
       ELSE [error |-> "",
             first_run |-> _determine_first_run_datetime(start_date, at),
             frequency |-> frequency,
             cycles |-> IF frequency = "none" THEN 1 ELSE cycles,
             delta_days |-> IF frequency \in DOMAIN _FREQUENCY_MAP
                            THEN _FREQUENCY_MAP[frequency] ELSE 0]

\* Variant: the cycle count of the request is kept when nothing repeats.
_extract_schedule_config_unforced(payload, at) ==
    LET fail(msg) == [NoConfig EXCEPT !.error = msg]
        start_date == strptime_date(payload.start_date)
        frequency == normalise_frequency(payload.frequency)
        cycles == _coerce_cycles(payload.cycles)
    IN IF payload.start_date = ""
       THEN fail("A schedule start date is required.")
       ELSE IF start_date < 0
       THEN fail("Schedule start date must be provided in YYYY-MM-DD format.")
       ELSE IF frequency \notin {"none"} \cup DOMAIN _FREQUENCY_MAP
       THEN fail("Unsupported schedule frequency.")
       ELSE IF cycles > _MAX_CYCLES
       THEN fail("Number of cycles exceeds the supported maximum.")
       ELSE [error |-> "",
             first_run |-> _determine_first_run_datetime(start_date, at),
             frequency |-> frequency,
             cycles |-> cycles,
             delta_days |-> IF frequency \in DOMAIN _FREQUENCY_MAP
                            THEN _FREQUENCY_MAP[frequency] ELSE 0]

\* _extract_schedule_config: the detail of the 400 it answers ("" when
\* none) and the configuration it returns otherwise.
_extract_schedule_config(payload, at) ==
    LET fail(msg) == [NoConfig EXCEPT !.error = msg]
        start_date == strptime_date(payload.start_date)
        frequency == normalise_frequency(payload.frequency)
        cycles == _coerce_cycles(payload.cycles)
    IN IF payload.start_date = ""
       THEN fail("A schedule start date is required.")
       ELSE IF start_date < 0
       THEN fail("Schedule start date must be provided in YYYY-MM-DD format.")
       ELSE IF frequency \notin {"none"} \cup DOMAIN _FREQUENCY_MAP
       THEN fail("Unsupported schedule frequency.")
       ELSE IF cycles > _MAX_CYCLES
       THEN fail("Number of cycles exceeds the supported maximum.")
       ELSE [error |-> "",
             first_run |-> _determine_first_run_datetime(start_date, at),
             frequency |-> frequency,
             cycles |-> IF frequency = "none" THEN 1 ELSE cycles,
             delta_days |-> IF frequency \in DOMAIN _FREQUENCY_MAP
                            THEN _FREQUENCY_MAP[frequency] ELSE 0]

\* _resolve_client: the detail of the 400 it answers ("" when none) and the
\* Client row it returns otherwise.
_resolve_client(cs, user, client_slug) ==
    LET found == { c \in cs : c.owner = user /\ c.slug = client_slug }
        client == IF found = {} THEN NoClientRow ELSE CHOOSE c \in found : TRUE
    IN IF client_slug = ""
       THEN [error |-> "A client slug is required.", client |-> NoClientRow]
       ELSE IF found = {}
       THEN [error |-> "Client could not be found for this clinician.",
             client |-> NoClientRow]
       ELSE IF client.email = ""
       THEN [error |-> "Client does not have an email address on file.",
             client |-> NoClientRow]
       ELSE [error |-> "", client |-> client]

\* RespondentLinkScheduleView.post, lines 240-253: what the request body in
\* is refused for ("" when it is not), the client and the configuration.
ScheduleRequest(cs, in, at) ==
    LET client == _resolve_client(cs, in.owner, in.client_slug)
        config == _extract_schedule_config(in, at)
    IN IF in.assessments = <<>>
       THEN [error |-> "'assessments' must be a non-empty list.",
             client |-> NoClientRow, config |-> NoConfig]
       ELSE IF client.error # ""
       THEN [error |-> client.error, client |-> NoClientRow,
             config |-> NoConfig]
       ELSE [error |-> config.error, client |-> client.client,
             config |-> config]

\* The row RespondentInviteSchedule.objects.create inserts, lines 257-268
NewSchedule(reference, in, client, config) ==
    [reference |-> reference, owner |-> in.owner, client |-> client.id,
     assessments |-> in.assessments, share_results |-> in.share_results,
     start_at |-> config.first_run, frequency |-> config.frequency,
     cycles |-> config.cycles]

\* Variant: schedule.delete() removes nothing.
schedule_delete_nothing(scheds, rs, reference) ==
    [schedules |-> scheds, runs |-> rs]

\* schedule.delete(): the Schedule and Run rows afterwards; the Run rows of
\* the schedule go with it (on_delete=CASCADE).
schedule_delete(scheds, rs, reference) ==
    [schedules |-> { s \in scheds : s.reference # reference },
     runs |-> { r \in rs : r.schedule # reference }]

\* Variant: each occurrence is a period after the one before it, counted
\* from the second period on.
ScheduledAt_late(first_run, frequency_days, index) ==
    first_run + frequency_days * (index + 1) * HOURS_PER_DAY * MINUTES_PER_HOUR

\* scheduled_at = first_run + timedelta(days=frequency_days * index)
ScheduledAt(first_run, frequency_days, index) ==
    first_run + frequency_days * index * HOURS_PER_DAY * MINUTES_PER_HOUR

\* The email send_assessment_invite_email hands to the provider; send_at is
\* -1 for an email to be sent at once.
InviteEmail(client_email, token, send_at) ==
    [to |-> client_email, token |-> token, send_at |-> send_at]

\* RespondentLinkScheduleView.post up to the creation of the Schedule row:
\* 400 when the request body is refused.
ScheduleStart(in) ==
    LET v == ScheduleRequest(clients, in, now)
    IN /\ job.pc = "idle"
       /\ IF v.error # ""
          THEN /\ Answers("schedule", v.error, 400)
               /\ UNCHANGED <<schedules, job, schedule_refs>>
          ELSE /\ schedule_refs < MaxSchedules
               /\ nonces + v.config.cycles <= MaxTokens
               /\ schedules' = schedules \cup
                     {NewSchedule(schedule_refs + 1, in, v.client, v.config)}
               /\ schedule_refs' = schedule_refs + 1
               /\ job' = [pc |-> "generate",
                          reference |-> schedule_refs + 1,
                          owner |-> in.owner,
                          client |-> v.client,
                          assessments |-> in.assessments,
                          share_results |-> in.share_results,
                          cycles |-> v.config.cycles,
                          first_run |-> v.config.first_run,
                          frequency_days |-> v.config.delta_days,
                          index |-> 0]
               /\ UNCHANGED last
       /\ UNCHANGED <<now, clients, invites, responses, nonces, client_ids,
                      issued, req, RESPONDENT_LINK_DEFAULT_MAX_USES, runs,
                      outbox>>

\* The token _generate_schedule_runs issues for the occurrence at hand.
OccurrenceIssue ==
    issue_link_token(invites, clients, job.owner, job.assessments, "linked",
                     job.client.slug, job.share_results, nonces + 1, now)

\* _generate_schedule_runs, one turn of the loop: issue the token (400 and
\* schedule.delete() when it raises), hand the email to the provider (502
\* and schedule.delete() when that fails), insert the Run row (an
\* IntegrityError, 500, when the Schedule row is gone); after the last
\* turn, 201.
ScheduleOccurrence(email_ok) ==
    LET r == OccurrenceIssue
        scheduled_at == ScheduledAt(job.first_run, job.frequency_days,
                                    job.index)
        rollback == schedule_delete(schedules, runs, job.reference)
        run == [schedule |-> job.reference, token |-> r.token,
                scheduled_at |-> scheduled_at]
        present == \E s \in schedules : s.reference = job.reference
    IN /\ job.pc = "generate"
       /\ invites' = r.invites
       /\ IF r.error # ""
          THEN /\ schedules' = rollback.schedules
               /\ runs' = rollback.runs
               /\ job' = NoJob
               /\ Answers("schedule", r.error, 400)
               /\ UNCHANGED <<nonces, issued, outbox>>
          ELSE IF ~email_ok
          THEN /\ schedules' = rollback.schedules
               /\ runs' = rollback.runs
               /\ job' = NoJob
               /\ nonces' = nonces + 1
               /\ Answers("schedule", "EmailInviteError", 502)
               /\ UNCHANGED <<issued, outbox>>
          ELSE /\ nonces' = nonces + 1
               /\ issued' = issued \cup {r.token}
               /\ outbox' = outbox \cup
                     {InviteEmail(job.client.email, r.token, scheduled_at)}
               /\ UNCHANGED schedules
               /\ IF ~present
                  THEN /\ job' = NoJob
                       /\ Answers("schedule", "IntegrityError", 500)
                       /\ UNCHANGED runs
                  ELSE /\ runs' = runs \cup {run}
                       /\ IF job.index + 1 < job.cycles
                          THEN /\ job' = [job EXCEPT !.index = @ + 1]
                               /\ UNCHANGED last
                          ELSE /\ job' = NoJob
                               /\ Answers("schedule", "Created", 201)
       /\ UNCHANGED <<now, clients, responses, client_ids, req,
                      RESPONDENT_LINK_DEFAULT_MAX_USES, schedule_refs>>

\* RespondentLinkEmailInviteView.post, lines 163-180: what the request body
\* in is refused for before a token is issued ("" when it is not).
EmailInviteRequest(cs, in) ==
    LET client == _resolve_client(cs, in.owner, in.client_slug)
    IN IF in.assessments = <<>>
       THEN [error |-> "'assessments' must be a non-empty list.",
             client |-> NoClientRow]
       ELSE client

\* RespondentLinkEmailInviteView.post: 400 when the body or the issue is
\* refused, 502 when the provider fails, 201 with the token otherwise.
RespondentLinkEmailInviteView(in, email_ok) ==
    LET v == EmailInviteRequest(clients, in)
        r == issue_link_token(invites, clients, in.owner, in.assessments,
                              "linked", v.client.slug, in.share_results,
                              nonces + 1, now)
    IN /\ nonces < MaxTokens
       /\ IF v.error # ""
          THEN /\ Answers("email", v.error, 400)
               /\ UNCHANGED <<invites, nonces, issued, outbox>>
          ELSE IF r.error # ""
          THEN /\ Answers("email", r.error, 400)
               /\ UNCHANGED <<invites, nonces, issued, outbox>>
          ELSE /\ invites' = r.invites
               /\ nonces' = nonces + 1
               /\ IF email_ok
                  THEN /\ issued' = issued \cup {r.token}
                       /\ outbox' = outbox \cup
                             {InviteEmail(v.client.email, r.token, -1)}
                       /\ Answers("email", "Sent", 201)
                  ELSE /\ Answers("email", "EmailInviteError", 502)
                       /\ UNCHANGED <<issued, outbox>>
       /\ UNCHANGED <<now, clients, responses, client_ids, req,
                      RESPONDENT_LINK_DEFAULT_MAX_USES, schedules, runs, job,
                      schedule_refs>>

\* Variant: the schedule is looked up by its reference alone.
ScheduleLookup_any_owner(scheds, user, reference) ==
    { s \in scheds : s.reference = reference }

\* RespondentInviteSchedule.objects.filter(owner=request.user,
\* reference=reference)
ScheduleLookup(scheds, user, reference) ==
    { s \in scheds : s.owner = user /\ s.reference = reference }

\* RespondentLinkScheduleDetailView.delete: 404 when the clinician has no
\* schedule of that reference, 204 after schedule.delete() otherwise.
RespondentLinkScheduleDetailView(user, reference) ==
    LET found == ScheduleLookup(schedules, user, reference)
        after == schedule_delete(schedules, runs, reference)
    IN /\ IF found = {}
          THEN /\ Answers("unschedule", "NotFound", 404)
               /\ UNCHANGED <<schedules, runs>>
          ELSE /\ schedules' = after.schedules
               /\ runs' = after.runs
               /\ Answers("unschedule", "Deleted", 204)
       /\ UNCHANGED <<now, clients, invites, responses, nonces, client_ids,
                      issued, req, RESPONDENT_LINK_DEFAULT_MAX_USES, outbox,
                      job, schedule_refs>>

-----------------------------------------------------------------------------
(* ClientViewSet: the clinician edits or deletes a client record.           *)

\* update: slug is a writable field of ClientSerializer
\* ClientViewSet.update: the clinician edits the email of a client record;
\* ClientSerializer stores the address as it was typed
ClientSetEmail(c, email) ==
    /\ c \in clients
    /\ email # c.email
    /\ clients' = (clients \ {c}) \cup {[c EXCEPT !.email = email]}
    /\ UNCHANGED <<now, invites, responses, nonces, client_ids, issued, req,
                   last, RESPONDENT_LINK_DEFAULT_MAX_USES, scheduling>>

ClientRename(c, slug) ==
    /\ c \in clients
    /\ slug # c.slug
    /\ ~ \E d \in clients : d.owner = c.owner /\ d.slug = slug
    /\ clients' = (clients \ {c}) \cup {[c EXCEPT !.slug = slug]}
    /\ UNCHANGED <<now, invites, responses, nonces, client_ids, issued, req,
                   last, RESPONDENT_LINK_DEFAULT_MAX_USES, scheduling>>

\* destroy: RespondentInvite.client and AssessmentResponse.client are
\* on_delete=SET_NULL, RespondentInviteSchedule.client and
\* RespondentInviteScheduleRun.schedule are on_delete=CASCADE
ClientDelete(c) ==
    /\ c \in clients
    /\ clients' = clients \ {c}
    /\ invites' = { IF i.client = c.id THEN [i EXCEPT !.client = 0] ELSE i :
                    i \in invites }
    /\ responses' = { IF r.client = c.id THEN [r EXCEPT !.client = 0] ELSE r :
                      r \in responses }
    /\ schedules' = { s \in schedules : s.client # c.id }
    /\ runs' = { r \in runs :
                   \E s \in schedules : s.reference = r.schedule
                                         /\ s.client # c.id }
    /\ UNCHANGED <<now, nonces, client_ids, issued, req, last,
                   RESPONDENT_LINK_DEFAULT_MAX_USES, outbox, job,
                   schedule_refs>>

-----------------------------------------------------------------------------
(* RespondentInvite.expires_at: no handler writes it after the row is       *)
(* inserted; an administrator can, through the database.                    *)

\* The administrator moves the expiry of an invite far into the future.
AdminExtendsExpiry(i) ==
    /\ i \in invites
    /\ i.expires_at <= MaxTime
    /\ invites' = (invites \ {i}) \cup {[i EXCEPT !.expires_at = @ + MaxTime]}
    /\ UNCHANGED <<now, clients, responses, nonces, client_ids, issued, req,
                   last, RESPONDENT_LINK_DEFAULT_MAX_USES, scheduling>>

-----------------------------------------------------------------------------
(* What the callers send *)

IssueInputs ==
    { [owner |-> 1, assessments |-> <<"phq9">>, mode |-> "",
       client_slug |-> "", share_results |-> FALSE],
      [owner |-> 1, assessments |-> <<"phq9">>, mode |-> "linked",
       client_slug |-> "alex", share_results |-> TRUE],
      [owner |-> 1, assessments |-> <<"phq9">>, mode |-> "linked",
       client_slug |-> "nobody", share_results |-> FALSE] }

WideIssueInputs ==
    [owner : Owners,
     assessments : {<<>>, <<"phq9">>, <<"phq9", "gad7">>, <<"phq9", "phq9">>,
                    <<"mood">>},
     mode : {"", "linked", "kiosk"},
     client_slug : {"", "alex"},
     share_results : BOOLEAN]

\* One component of a token string altered: a payload field, the timestamp
\* or the signature (to another token's, or to one made without the key).
Altered(t) ==
    { [t EXCEPT !.data.owner = o] : o \in Owners \ {t.data.owner} }
    \cup { [t EXCEPT !.data.client = c] : c \in {None, "alex"} \ {t.data.client} }
    \cup { [t EXCEPT !.data.pending = ~@] }
    \cup { [t EXCEPT !.data.nonce = @ + 1] }
    \cup { [t EXCEPT !.ts = @ + 48] }
    \cup { [t EXCEPT !.sig = u.sig] : u \in issued \ {t} }
    \cup { [t EXCEPT !.sig = Signature("guess", t.data, t.ts)] }

Presented == issued \cup UNION { Altered(t) : t \in issued }

SubmitInputs ==
    { [assessment |-> "phq9", client_slug |-> "alex", answers_ok |-> TRUE],
      [assessment |-> "phq9", client_slug |-> "alex", answers_ok |-> FALSE],
      [assessment |-> "gad7", client_slug |-> "alex", answers_ok |-> TRUE],
      [assessment |-> "phq9", client_slug |-> "sam", answers_ok |-> TRUE],
      [assessment |-> "phq9", client_slug |-> None, answers_ok |-> TRUE] }

\* Issue requests of both clinicians; a self-entry request may name a
\* client slug.
AccessIssueInputs ==
    { [owner |-> 1, assessments |-> <<"phq9">>, mode |-> "",
       client_slug |-> "", share_results |-> FALSE],
      [owner |-> 1, assessments |-> <<"phq9", "mood">>, mode |-> "linked",
       client_slug |-> "alex", share_results |-> FALSE],
      [owner |-> 2, assessments |-> <<"phq9">>, mode |-> "",
       client_slug |-> "alex", share_results |-> FALSE] }

AccessSubmitInputs ==
    { [assessment |-> "phq9", client_slug |-> "alex", answers_ok |-> TRUE],
      [assessment |-> "phq9", client_slug |-> "alex", answers_ok |-> FALSE],
      [assessment |-> "gad7", client_slug |-> "alex", answers_ok |-> TRUE],
      [assessment |-> "gad7", client_slug |-> "ghost", answers_ok |-> TRUE],
      [assessment |-> "nope", client_slug |-> "alex", answers_ok |-> TRUE],
      [assessment |-> "phq9", client_slug |-> "sam", answers_ok |-> TRUE],
      [assessment |-> "phq9", client_slug |-> None, answers_ok |-> TRUE] }

FetchSlugs == {"phq9", "gad7", "mood", "nope"}

BindInputs ==
    { [email |-> "jordan@example.com", first_name |-> "Jordan"],
      [email |-> "alex@example.com", first_name |-> ""] }

RenameSlugs == {"alexander"}

\* Client details of a bind, and addresses a clinician may type, with
\* capitals in the address.
UpsertInputs ==
    BindInputs \cup { [email |-> "Alex@Example.com", first_name |-> ""],
                      [email |-> "sam@example.com", first_name |-> "Sammy"],
                      [email |-> "", first_name |-> "Jordan"] }

TypedEmails == {"Alex@Example.com"}

ScheduleBody(owner, assessments, client_slug, start_date, frequency, cycles) ==
    [owner |-> owner, assessments |-> assessments, client_slug |-> client_slug,
     share_results |-> owner = 2, start_date |-> start_date,
     frequency |-> frequency, cycles |-> cycles]

ScheduleInputs ==
    { ScheduleBody(1, <<"phq9">>, "alex", "2024-01-01", "Week", 3),
      ScheduleBody(1, <<"phq9">>, "alex", "2024-01-01", "three-months", 2),
      ScheduleBody(1, <<"phq9">>, "alex", "2024-01-01", "none", 3),
      ScheduleBody(1, <<"phq9">>, "alex", "2024-01-01", "none", 150),
      ScheduleBody(1, <<"phq9">>, "alex", "2024-01-01", "day", 100),
      ScheduleBody(1, <<"phq9">>, "alex", "2024-01-01", "quarter", 2),
      ScheduleBody(2, <<"phq9">>, "sam", "2024-01-01", "fortnight", 2),
      ScheduleBody(2, <<"mood">>, "sam", "2024-01-01", "day", 2),
      ScheduleBody(1, <<"phq9">>, "alex", "2024-01-03", "day", 2),
      ScheduleBody(1, <<"phq9">>, "alex", "2024-01-01", " month", 2),
      ScheduleBody(1, <<>>, "alex", "2024-01-01", "week", 2),
      ScheduleBody(1, <<"phq9">>, "nobody", "2024-01-01", "week", 2),
      ScheduleBody(1, <<"phq9">>, "alex", "", "week", 150),
      ScheduleBody(1, <<"phq9">>, "alex", "01/01/2024", "week", 2) }

UnscheduleInputs ==
    { ScheduleBody(1, <<"phq9">>, "alex", "2024-01-01", "week", 2),
      ScheduleBody(2, <<"phq9">>, "sam", "2024-01-01", "none", 1) }

\* Request bodies for _extract_schedule_config alone.
WideScheduleInputs ==
    { ScheduleBody(1, <<"phq9">>, "alex", d, f, n) :
        d \in {"", "2024-01-01", "2024-01-03", "01/01/2024"},
        f \in {"", " ", "none", "day", "week", "Week", "fortnight", "month",
               " month", "three-months", "quarter", "year"},
        n \in {-1, 0, 1, 99, 100, 150} }

EmailInviteInputs ==
    { [owner |-> 1, assessments |-> <<"phq9">>, client_slug |-> "alex",
       share_results |-> FALSE],
      [owner |-> 2, assessments |-> <<"mood">>, client_slug |-> "sam",
       share_results |-> FALSE],
      [owner |-> 1, assessments |-> <<"phq9">>, client_slug |-> "nobody",
       share_results |-> FALSE] }

References == 1..(MaxSchedules + 1)

-----------------------------------------------------------------------------
(* Specifications *)

SubmitFlow ==
    \/ \E w \in Workers, t \in issued : SubmitResolve(w, t)
    \/ \E w \in Workers, in \in SubmitInputs :
         SubmitSave(w, in.assessment, in.client_slug, in.answers_ok)
    \/ \E w \in Workers : SubmitMark(w)

BindFlow ==
    \/ \E w \in Workers, t \in issued : BindResolve(w, t)
    \/ \E w \in Workers, in \in BindInputs : BindLookup(w, in)
    \/ \E w \in Workers : BindUpdate(w)
    \/ \E w \in Workers : BindSlug(w)
    \/ \E w \in Workers : BindCreate(w)
    \/ \E w \in Workers : BindRefresh(w)
    \/ \E w \in Workers : BindReresolve(w)

\* Every endpoint that writes an invite, two workers, within the hour.
Next ==
    \/ \E in \in IssueInputs : RespondentLinkIssueView(in)
    \/ \E t \in issued : RespondentLinkResolveView(t)
    \/ SubmitFlow
    \/ BindFlow

Spec == Init /\ [][Next]_vars

\* Issuing and submitting.
NextUse ==
    \/ Tick(RESPONDENT_LINK_DEFAULT_TTL_HOURS, ShortTime)
    \/ \E in \in IssueInputs : RespondentLinkIssueView(in)
    \/ \E t \in issued : RespondentLinkResolveView(t)
    \/ SubmitFlow

SpecUse == InitObserved /\ [][NextUse]_vars

\* Issuing and binding.
NextBind ==
    \/ Tick(RESPONDENT_LINK_DEFAULT_TTL_HOURS, ShortTime)
    \/ \E in \in IssueInputs : RespondentLinkIssueView(in)
    \/ \E t \in issued : RespondentLinkResolveView(t)
    \/ BindFlow

SpecBind == Init /\ [][NextBind]_vars

\* Issuing with every kind of request body, and resolving what comes back
\* and what can be made of it by altering it.
NextIssue ==
    \/ Tick(RESPONDENT_LINK_DEFAULT_TTL_HOURS, ShortTime)
    \/ \E in \in WideIssueInputs : RespondentLinkIssueView(in)
    \/ \E t \in Presented : RespondentLinkResolveView(t)

SpecIssue == InitObserved /\ [][NextIssue]_vars

\* Invites growing old while the clinician edits the client records.
NextExpiry ==
    \/ Tick(RESPONDENT_LINK_DEFAULT_TTL_HOURS, ShortTime)
    \/ Tick(RESPONDENT_LINK_MAX_AGE_SECONDS \div SECONDS_PER_HOUR, MaxTime)
    \/ \E in \in IssueInputs : RespondentLinkIssueView(in)
    \/ \E t \in issued : RespondentLinkResolveView(t)
    \/ \E c \in clients, s \in RenameSlugs : ClientRename(c, s)
    \/ \E c \in clients : ClientDelete(c)
    \/ \E t \in issued : SubmitResolve(1, t)
    \/ \E in \in SubmitInputs :
         SubmitSave(1, in.assessment, in.client_slug, in.answers_ok)
    \/ SubmitMark(1)

SpecExpiry == Init /\ [][NextExpiry]_vars

\* One respondent binding at a time while the invites grow old.
NextRebind ==
    \/ Tick(RESPONDENT_LINK_DEFAULT_TTL_HOURS, ShortTime)
    \/ Tick(RESPONDENT_LINK_MAX_AGE_SECONDS \div SECONDS_PER_HOUR, MaxTime)
    \/ \E in \in IssueInputs : RespondentLinkIssueView(in)
    \/ \E t \in issued : RespondentLinkResolveView(t)
    \/ \E t \in issued : BindResolve(1, t)
    \/ \E in \in BindInputs : BindLookup(1, in)
    \/ BindUpdate(1)
    \/ BindSlug(1)
    \/ BindCreate(1)
    \/ BindRefresh(1)
    \/ BindReresolve(1)

SpecRebind == InitObserved /\ [][NextRebind]_vars

\* One respondent binding at a time while clinicians edit the addresses of
\* their client records.
NextUpsert ==
    \/ \E in \in IssueInputs : RespondentLinkIssueView(in)
    \/ \E t \in issued : RespondentLinkResolveView(t)
    \/ \E c \in clients, e \in TypedEmails : ClientSetEmail(c, e)
    \/ \E t \in issued : BindResolve(1, t)
    \/ \E in \in UpsertInputs : BindLookup(1, in)
    \/ BindUpdate(1)
    \/ BindSlug(1)
    \/ BindCreate(1)
    \/ BindRefresh(1)
    \/ BindReresolve(1)

SpecUpsert == InitObserved /\ [][NextUpsert]_vars

\* Two respondents binding while the clock advances hour by hour.
NextBindClock ==
    \/ Tick(1, BindTime)
    \/ \E in \in IssueInputs : RespondentLinkIssueView(in)
    \/ BindFlow

SpecBindClock == Init /\ [][NextBindClock]_vars

\* Two respondents binding while clinician 1 deletes client records.
NextBindDelete ==
    \/ \E in \in IssueInputs : RespondentLinkIssueView(in)
    \/ \E t \in issued : RespondentLinkResolveView(t)
    \/ BindFlow
    \/ \E c \in clients : c.owner = 1 /\ ClientDelete(c)

SpecBindDelete == Init /\ [][NextBindDelete]_vars

\* Invites growing old after an administrator has extended their expiry.
NextAdmin ==
    \/ Tick(RESPONDENT_LINK_DEFAULT_TTL_HOURS, ShortTime)
    \/ Tick(RESPONDENT_LINK_MAX_AGE_SECONDS \div SECONDS_PER_HOUR, MaxTime)
    \/ \E in \in IssueInputs : RespondentLinkIssueView(in)
    \/ \E i \in invites : AdminExtendsExpiry(i)
    \/ \E t \in issued : RespondentLinkResolveView(t)

SpecAdmin == InitObserved /\ [][NextAdmin]_vars

\* One respondent at a time fetching, binding and submitting with the
\* tokens of both clinicians.
NextAccess ==
    \/ \E in \in AccessIssueInputs : RespondentLinkIssueView(in)
    \/ \E t \in issued, slug \in FetchSlugs :
         RespondentAssessmentDetailView(t, slug)
    \/ \E t \in issued : SubmitResolve(1, t)
    \/ \E in \in AccessSubmitInputs :
         SubmitSave(1, in.assessment, in.client_slug, in.answers_ok)
    \/ SubmitMark(1)
    \/ \E t \in issued : BindResolve(1, t)
    \/ \E in \in BindInputs : BindLookup(1, in)
    \/ BindUpdate(1)
    \/ BindSlug(1)
    \/ BindCreate(1)
    \/ BindRefresh(1)
    \/ BindReresolve(1)

SpecAccess == InitObserved /\ [][NextAccess]_vars

\* Schedules being created while clinician 1 edits and deletes the client
\* records; a request is answered within the hour.
NextSchedule ==
    \/ job.pc = "idle" /\ Tick(RESPONDENT_LINK_DEFAULT_TTL_HOURS, ShortTime)
    \/ \E in \in ScheduleInputs : ScheduleStart(in)
    \/ \E email_ok \in BOOLEAN : ScheduleOccurrence(email_ok)
    \/ \E c \in clients, slug \in RenameSlugs :
         c.owner = 1 /\ ClientRename(c, slug)
    \/ \E c \in clients : c.owner = 1 /\ ClientDelete(c)

\* The deployment keeps the default of one use for each invite.
InitSchedule == InitObserved /\ RESPONDENT_LINK_DEFAULT_MAX_USES = 1

SpecSchedule == InitSchedule /\ [][NextSchedule]_vars

\* Invites sent by email, at once and on schedules, and schedules deleted.
NextUnschedule ==
    \/ \E in \in UnscheduleInputs : ScheduleStart(in)
    \/ \E email_ok \in BOOLEAN : ScheduleOccurrence(email_ok)
    \/ \E in \in EmailInviteInputs, email_ok \in BOOLEAN :
         RespondentLinkEmailInviteView(in, email_ok)
    \/ \E user \in Owners, reference \in References :
         RespondentLinkScheduleDetailView(user, reference)
    \/ \E t \in issued : RespondentLinkResolveView(t)

SpecUnschedule == InitSchedule /\ [][NextUnschedule]_vars

-----------------------------------------------------------------------------
(* Properties *)

\* The responses recorded through the token of invite i.
ResponsesThrough(i) == { r \in responses : r.token = i.token }

\* C1: for every Invite, at most max_uses responses are ever recorded
\* through its token, however the concurrent submissions interleave.
C1_ResponsesWithinMaxUses ==
    \A i \in invites : Cardinality(ResponsesThrough(i)) <= i.max_uses

\* C2: in every reachable state every Invite row has uses <= max_uses.
C2_UsesWithinMaxUses ==
    \A i \in invites : i.uses <= i.max_uses

\* A submission is about to mark an invite that another has exhausted.
C2_MarkOnExhausted ==
    \E w \in Workers :
        /\ req[w].pc = "submit_mark"
        /\ InviteByToken(invites, req[w].token).id # 0
        /\ InviteByToken(invites, req[w].token).uses
             = InviteByToken(invites, req[w].token).max_uses

\* C3: an unexpired invite with max_uses = N that is not rebound resolves
\* Valid while fewer than N uses are consumed and ExhaustedUses from then
\* on; each consumption below N adds one use and stamps used_at, and
\* mark_invite_used on an exhausted invite changes no row.
C3_RoundsThenExhausted ==
    /\ [](\A i \in invites :
            now < i.expires_at =>
              ResolveOutcome(invites, clients, i.token, now)
                = IF i.uses < i.max_uses THEN "Valid" ELSE "ExhaustedUses")
    /\ [][\A w \in Workers :
            SubmitMark(w) =>
              LET i == InviteByToken(invites, req[w].token)
              IN IF i.uses < i.max_uses
                 THEN invites' = (invites \ {i}) \cup
                        {[i EXCEPT !.uses = i.uses + 1, !.used_at = now]}
                 ELSE invites' = invites]_vars

\* Two rounds have consumed an invite of two uses and the third attempt
\* was answered "already been used".
C3_ThirdAttemptRefused ==
    /\ last = Response("submit", "ExhaustedUses", 400)
    /\ \E i \in invites :
         /\ i.max_uses = 2 /\ i.uses = 2 /\ now < i.expires_at
         /\ Cardinality(ResponsesThrough(i)) = 2

\* C4: resolving a token, valid or not, leaves every Invite row and every
\* Client row as it was.
C4_ResolveIsPureRead ==
    [][(\E t \in Presented : RespondentLinkResolveView(t))
         => (invites' = invites /\ clients' = clients)]_vars

\* A token has just been resolved with success and no invite shows a use.
C4_ResolvedUnconsumed ==
    /\ last = Response("resolve", "Valid", 200)
    /\ invites # {}
    /\ \A i \in invites : i.uses = 0 /\ i.used_at = -1

\* A step of the submit endpoint by worker w that ends the request before
\* mark_invite_used is reached.
SubmitEndsUnsaved(w) ==
    /\ \/ \E t \in issued : SubmitResolve(w, t)
       \/ \E in \in SubmitInputs :
            SubmitSave(w, in.assessment, in.client_slug, in.answers_ok)
    /\ req'[w].pc = "idle"

\* C5: every path of the submit endpoint that ends without a saved
\* response leaves the uses and used_at of every Invite unchanged, and
\* the invite is marked only by a request whose response is saved.
C5_NoUseWithoutResponse ==
    /\ [][\A w \in Workers :
            SubmitEndsUnsaved(w) =>
              (invites' = invites /\ responses' = responses)]_vars
    /\ [](\A w \in Workers :
            req[w].pc = "submit_mark" =>
              \E r \in responses : r.token = req[w].token)

\* A submission has been refused with 403 and the invite is unused.
C5_RefusedUnconsumed ==
    /\ last.op = "submit" /\ last.status = 403
    /\ responses = {}
    /\ \E i \in invites : i.uses = 0 /\ i.used_at = -1 /\ ~i.pending_client

\* The grant resolve_link_token returns, in the state after the step, for
\* the token the issue endpoint hands out for the request body in.
IssuedGrant(in) ==
    resolve_link_token(invites', clients',
                       IssueCall(invites, clients, in, nonces + 1, now).token,
                       now')

IssueSucceeds(in) ==
    /\ nonces' = nonces + 1
    /\ RespondentLinkIssueView(in)

\* C6 as stated: the grant's assessments, mode, client_slug and
\* share_results equal the issuance parameters.
C6_RoundTripEqual ==
    [][\A in \in WideIssueInputs :
         IssueSucceeds(in) =>
           LET g == IssuedGrant(in)
               p == IssueParams(in)
           IN /\ g.outcome = "Valid"
              /\ g.payload.assessments = p.assessments
              /\ g.payload.mode = p.mode
              /\ g.payload.client_slug = p.client_slug
              /\ g.payload.share_results = p.share_results]_vars

\* C6 amended: the token resolves at once; the grant's mode, client_slug
\* and share_results equal the parameters, and its assessments are the
\* distinct slugs of the parameter list, each once.
C6_RoundTripDistinct ==
    [][\A in \in WideIssueInputs :
         IssueSucceeds(in) =>
           LET g == IssuedGrant(in)
               p == IssueParams(in)
           IN /\ g.outcome = "Valid"
              /\ Range(g.payload.assessments) = Range(p.assessments) \ {""}
              /\ Len(g.payload.assessments)
                   = Cardinality(Range(g.payload.assessments))
              /\ g.payload.mode = p.mode
              /\ g.payload.client_slug = p.client_slug
              /\ g.payload.share_results = p.share_results]_vars

\* A linked, shared link for two assessments has been issued and resolves.
C6_TwoAssessmentsIssued ==
    /\ last = Response("issue", "", 201)
    /\ \E t \in issued :
         /\ Len(t.data.assessments) = 2
         /\ t.data.mode = "linked" /\ t.data.share
         /\ ResolveOutcome(invites, clients, t, now) = "Valid"

\* C7 as stated: a token whose Invite row has expired always resolves to
\* RowExpired.
C7_ExpiredIsRowExpired ==
    \A i \in invites :
        now >= i.expires_at =>
          ResolveOutcome(invites, clients, i.token, now) = "RowExpired"

\* C7 amended: a token whose Invite row has expired never resolves Valid;
\* it resolves to RowExpired whatever the use count, unless an earlier
\* check answers first: SignatureExpired when the signature is older than
\* the codec's maximum age, ClientMismatch when the bound client's slug is
\* no longer the payload's.
C7_ExpiredNeverValid ==
    \A i \in invites :
        now >= i.expires_at =>
          ResolveOutcome(invites, clients, i.token, now)
            = IF (now - i.token.ts) * SECONDS_PER_HOUR
                   > RESPONDENT_LINK_MAX_AGE_SECONDS
              THEN "SignatureExpired"
              ELSE IF i.client # 0
                      /\ ClientById(clients, i.client).slug
                           # i.token.data.client
              THEN "ClientMismatch"
              ELSE "RowExpired"

\* An invite that was used up has expired and resolves to RowExpired.
C7_UsedUpAndExpired ==
    \E i \in invites :
        /\ now >= i.expires_at
        /\ i.uses = i.max_uses
        /\ ResolveOutcome(invites, clients, i.token, now) = "RowExpired"

\* C8: a string resolves Valid only if it is the token of a stored Invite
\* row that the codec produced, and every alteration of an issued token is
\* answered as invalid or tampered.
C8_OnlyIssuedTokensResolve ==
    /\ \A t \in Presented :
         ResolveOutcome(invites, clients, t, now) = "Valid" =>
           /\ t \in issued
           /\ \E i \in invites : i.token = t
           /\ resolve_link_token(invites, clients, t, now).payload.invite_id
                = InviteByToken(invites, t).id
    /\ \A t \in issued : \A a \in Altered(t) :
         /\ a \notin issued
         /\ Message(ResolveOutcome(invites, clients, a, now))
              = "The respondent link is invalid or has been tampered with."

\* Two tokens are issued and valid, and one with the other's signature is
\* among the strings presented.
C8_SwappedSignaturePresented ==
    \E t \in issued, u \in issued :
        /\ t # u
        /\ ResolveOutcome(invites, clients, t, now) = "Valid"
        /\ ResolveOutcome(invites, clients, u, now) = "Valid"
        /\ [t EXCEPT !.sig = u.sig] \in Presented

\* C9: concurrent binds of one pending token with the same email leave
\* exactly one Client row for that (owner, email).
C9_OneClientPerEmail ==
    \A c \in clients, d \in clients :
        (c.owner = d.owner /\ c.email = d.email /\ c.email # "") => c = d

\* C10: a token issued self-entry without a client resolves to mode
\* self-entry, pendingClient true, client null; the token a successful
\* bind returns resolves to mode linked, pendingClient false and the
\* client the bind created or matched, a client of the invite's owner.
C10_BindScenario ==
    /\ [](\A t \in issued :
            (t.data.mode = "self-entry" /\ t.data.client = None
               /\ ResolveResponse(invites, clients, t, now).status = 200) =>
              /\ ResolveResponse(invites, clients, t, now).body.mode
                   = "self-entry"
              /\ ResolveResponse(invites, clients, t, now).body.pendingClient
              /\ ResolveResponse(invites, clients, t, now).body.client = None)
    /\ [][\A w \in Workers :
            (BindReresolve(w) /\ req[w].refreshed \in issued') =>
              LET v == ResolveResponse(invites', clients', req[w].refreshed,
                                       now')
              IN /\ v.status = 200
                 /\ v.body.mode = "linked"
                 /\ ~v.body.pendingClient
                 /\ \E c \in clients' :
                      /\ c.id = req[w].client.id
                      /\ c.slug = v.body.client
                      /\ c.owner = req[w].link.owner_id]_vars

\* A pending invite has been bound in place and the token the bind
\* returned resolves.
C10_BoundTokenResolves ==
    \E i \in invites :
        /\ i.mode = "self-entry" /\ ~i.pending_client /\ i.client # 0
        /\ i.token \in issued
        /\ ResolveResponse(invites, clients, i.token, now).status = 200

\* C11: a bind request on a token that resolves with pending_client false
\* is answered 400 at once, and no Client row and no Invite row is created
\* or changed by it.
C11_NonPendingBindRejected ==
    [][\A t \in issued :
         (/\ BindResolve(1, t)
          /\ ResolveOutcome(invites, clients, t, now) = "Valid"
          /\ ~InviteByToken(invites, t).pending_client)
         => (/\ clients' = clients
             /\ invites' = invites
             /\ client_ids' = client_ids
             /\ req'[1] = Idle
             /\ last' = Response("bind", "AlreadyLinked", 400))]_vars

\* A linked invite that still resolves has just been refused a bind.
C11_LinkedBindRefused ==
    /\ last = Response("bind", "AlreadyLinked", 400)
    /\ \E t \in issued :
         /\ ResolveOutcome(invites, clients, t, now) = "Valid"
         /\ ~InviteByToken(invites, t).pending_client
         /\ InviteByToken(invites, t).client # 0

\* C12: an Invite row with pending_client true has no client, whether the
\* row comes from a self-entry issue, an in-place rebind, a new-row rebind
\* or has lost its client to a deletion.
C12_PendingHasNoClient ==
    \A i \in invites : i.pending_client => i.client = 0

\* A pending invite beside a bound invite, and an invite that was bound and
\* has lost its client to a deletion.
C12_PendingBoundAndOrphaned ==
    /\ \E i \in invites : i.pending_client /\ i.client = 0
    /\ \E i \in invites : ~i.pending_client /\ i.client # 0
    /\ \E i \in invites : ~i.pending_client /\ i.client = 0

\* The tokens handed out whose Invite row now carries another token.
Superseded == { t \in issued : InviteByToken(invites, t).id = 0 }

\* C13 as stated: every resolve of a superseded token ends in NotFound.
C13_SupersededIsNotFound ==
    \A t \in Superseded : ResolveOutcome(invites, clients, t, now) = "NotFound"

\* C13: an in-place rebind takes the old token off the Invite row and puts
\* the refreshed one on it; a superseded token never gets a row back and
\* never resolves to Valid: it ends in NotFound while its signature is
\* within the signing age and in SignatureExpired once it is older; and no
\* two tokens resolve to Valid through the same Invite row.
C13_SupersededNeverValid ==
    /\ [](\A t \in Superseded :
            LET outcome == ResolveOutcome(invites, clients, t, now)
            IN /\ outcome \in {"NotFound", "SignatureExpired"}
               /\ (now - t.ts) * SECONDS_PER_HOUR
                     <= RESPONDENT_LINK_MAX_AGE_SECONDS
                  => outcome = "NotFound")
    /\ [](\A t, u \in issued :
            LET a == resolve_link_token(invites, clients, t, now)
                b == resolve_link_token(invites, clients, u, now)
            IN (/\ a.outcome = "Valid"
                /\ b.outcome = "Valid"
                /\ a.payload.invite_id = b.payload.invite_id)
               => t = u)
    /\ [][\A t \in Superseded : InviteByToken(invites', t).id = 0]_vars
    /\ [][(BindRefresh(1) /\ req'[1].pc = "bind_reresolve")
          => (/\ InviteByToken(invites', req[1].token).id = 0
              /\ InviteByToken(invites', req'[1].refreshed).id
                    = req[1].link.invite_id
              /\ Cardinality(invites') = Cardinality(invites))]_vars

\* A superseded token has outlived the signing age, beside the token that
\* replaced it.
C13_SupersededAndOld ==
    \E t \in Superseded :
      /\ ResolveOutcome(invites, clients, t, now) = "SignatureExpired"
      /\ \E i \in invites : ~i.pending_client /\ i.token \in issued
                            /\ i.token.data.nonce > t.data.nonce

\* The Run rows of a schedule.
RunsOf(rs, reference) == { r \in rs : r.schedule = reference }

\* A schedule request answers 201 in this step.
ScheduleCompletes ==
    /\ ScheduleOccurrence(TRUE)
    /\ job'.pc = "idle"
    /\ last' = Response("schedule", "Created", 201)

\* The request body in is well formed but for its frequency and cycles.
WellFormedSchedule(in) ==
    ScheduleRequest(clients, [in EXCEPT !.frequency = "day", !.cycles = 1],
                    now).error = ""

OffsetDays ==
    "none" :> 0 @@ "day" :> 1 @@ "week" :> 7 @@ "fortnight" :> 14
    @@ "month" :> 30 @@ "three-months" :> 90

C15_FailedScheduleLeavesNoRows ==
    [][\A email_ok \in BOOLEAN :
         (/\ ScheduleOccurrence(email_ok)
          /\ (OccurrenceIssue.error # "" \/ ~email_ok))
         => (/\ ~ \E s \in schedules' : s.reference = job.reference
             /\ RunsOf(runs', job.reference) = {}
             /\ outbox' = outbox
             /\ job' = NoJob
             /\ last' = IF OccurrenceIssue.error # ""
                        THEN Response("schedule", OccurrenceIssue.error, 400)
                        ELSE Response("schedule", "EmailInviteError",
                                      502))]_vars

\* The provider has failed on a later occurrence of a schedule: the email of
\* an earlier occurrence is out, and no Schedule or Run row is left.
C15_FailedAfterFirstOccurrence ==
    /\ last = Response("schedule", "EmailInviteError", 502)
    /\ \E e \in outbox : e.send_at >= 0
    /\ schedules = {}
    /\ runs = {}

\* The provider fails in this step of a schedule request.
ScheduleDispatchFails ==
    ScheduleOccurrence(FALSE) /\ OccurrenceIssue.error = ""

\* The provider fails in this step, a single email invite.
EmailDispatchFails ==
    \E in \in EmailInviteInputs :
      /\ RespondentLinkEmailInviteView(in, FALSE)
      /\ last' = Response("email", "EmailInviteError", 502)

\* C16: when the provider fails, no Invite row issued by the failed request
\* is left, so none of its tokens resolves to Valid afterwards.
C16_FailedDispatchLeavesNoInvite ==
    [][/\ EmailDispatchFails => invites' \subseteq invites
       /\ ScheduleDispatchFails =>
            /\ invites' \subseteq invites
            /\ \A r \in RunsOf(runs, job.reference) :
                 /\ InviteByToken(invites', r.token).id = 0
                 /\ ResolveOutcome(invites', clients', r.token, now')
                       # "Valid"]_vars

\* C17: deleting a schedule removes its Run rows and the Invite rows issued
\* for its occurrences, so no token of a Run resolves to Valid afterwards.
C17_DeleteRemovesInvites ==
    [][\A user \in Owners, reference \in References :
         (/\ RespondentLinkScheduleDetailView(user, reference)
          /\ ScheduleLookup(schedules, user, reference) # {})
         => (/\ RunsOf(runs', reference) = {}
             /\ \A r \in RunsOf(runs, reference) :
                  /\ InviteByToken(invites', r.token).id = 0
                  /\ ResolveOutcome(invites', clients', r.token, now')
                        # "Valid")]_vars

\* C18: a delete request for a reference that no schedule has, or that a
\* schedule of another clinician has, is answered 404 and leaves every
\* Schedule and Run row as it was; the owner's own request is answered 204
\* and removes that schedule and its Run rows and no other row.
C18_DeleteIsOwnerScoped ==
    [][\A user \in Owners, reference \in References :
         RespondentLinkScheduleDetailView(user, reference)
         => IF \E s \in schedules : s.reference = reference /\ s.owner = user
            THEN /\ schedules'
                      = { s \in schedules : s.reference # reference }
                 /\ runs' = runs \ RunsOf(runs, reference)
                 /\ last' = Response("unschedule", "Deleted", 204)
            ELSE /\ schedules' = schedules
                 /\ runs' = runs
                 /\ last' = Response("unschedule", "NotFound", 404)]_vars

\* A delete request has been answered 404 while each clinician has a
\* schedule with Run rows.
C18_RefusedWithSchedulesOfBoth ==
    /\ last = Response("unschedule", "NotFound", 404)
    /\ \A o \in Owners :
         \E s \in schedules :
           s.owner = o /\ RunsOf(runs, s.reference) # {}

\* C19: a schedule request whose cycle count is above 99 is answered 400
\* and touches no Schedule, Run or Invite row and sends no email; every
\* Schedule row has between 1 and 99 cycles and, once its request has been
\* answered, exactly that many Run rows.
C19_CyclesWithinLimit ==
    /\ [][\A in \in ScheduleInputs :
            (ScheduleStart(in) /\ _coerce_cycles(in.cycles) > _MAX_CYCLES)
            => (/\ last'.status = 400
                /\ UNCHANGED <<schedules, runs, invites, outbox, nonces, job,
                               issued>>)]_vars
    /\ [](\A s \in schedules :
            /\ s.cycles >= 1
            /\ s.cycles <= _MAX_CYCLES
            /\ job.reference # s.reference
               => Cardinality(RunsOf(runs, s.reference)) = s.cycles)
    /\ [](\A in \in WideScheduleInputs :
            LET config == _extract_schedule_config(in, now)
            IN /\ _coerce_cycles(in.cycles) > _MAX_CYCLES
                  => config.error # ""
               /\ config.error = ""
                  => (config.cycles >= 1 /\ config.cycles <= _MAX_CYCLES)
               /\ (/\ _coerce_cycles(in.cycles) <= _MAX_CYCLES
                   /\ strptime_date(in.start_date) >= 0
                   /\ normalise_frequency(in.frequency)
                         \in {"none"} \cup DOMAIN _FREQUENCY_MAP)
                  => config.error = "")

\* A request for too many cycles has just been refused, beside a schedule
\* that stands with all its Run rows.
C19_TooManyCyclesRefused ==
    /\ last = Response("schedule",
                       "Number of cycles exceeds the supported maximum.", 400)
    /\ \E s \in schedules : Cardinality(RunsOf(runs, s.reference)) = s.cycles

\* C20 as stated: a well-formed request with frequency none is taken up as
\* a schedule of one cycle whatever cycle count it carries.
C20_NoneAlwaysOneCycle ==
    [][\A in \in ScheduleInputs :
         (/\ ScheduleStart(in)
          /\ normalise_frequency(in.frequency) = "none"
          /\ WellFormedSchedule(in))
         => \E s \in schedules' \ schedules : s.cycles = 1]_vars

\* C20: a well-formed request with frequency none and a cycle count of at
\* most 99 is taken up as a schedule of one cycle whatever that count is,
\* and once answered 201 it has exactly one Run row, at the first-run
\* instant.
C20_NoneWithinLimitOneCycle ==
    /\ [][\A in \in ScheduleInputs :
            (/\ ScheduleStart(in)
             /\ normalise_frequency(in.frequency) = "none"
             /\ _coerce_cycles(in.cycles) <= _MAX_CYCLES
             /\ WellFormedSchedule(in))
            => \E s \in schedules' \ schedules :
                 s.cycles = 1 /\ s.frequency = "none"]_vars
    /\ [](\A s \in schedules :
            (s.frequency = "none" /\ job.reference # s.reference)
            => \E r \in runs :
                 /\ RunsOf(runs, s.reference) = {r}
                 /\ r.scheduled_at = s.start_at)
    /\ [](\A in \in WideScheduleInputs :
            LET config == _extract_schedule_config(in, now)
            IN (config.error = "" /\ config.frequency = "none")
               => config.cycles = 1)

\* A request with frequency none and a cycle count of three stands as a
\* schedule with one Run row.
C20_OneRunForThreeCycles ==
    /\ last = Response("schedule", "Created", 201)
    /\ \E s \in schedules :
         /\ s.frequency = "none"
         /\ Cardinality(RunsOf(runs, s.reference)) = 1
         /\ \A t \in schedules : t = s

\* The signature of token t is older than the codec's maximum age.
TooOld(t) ==
    (now - t.ts) * SECONDS_PER_HOUR > RESPONDENT_LINK_MAX_AGE_SECONDS

\* C21: a token whose signing timestamp is older than the maximum link
\* lifetime is rejected with SignatureExpired whatever its Invite row says,
\* also when the row exists with expires_at in the future and uses below
\* max_uses; the resolve endpoint answers it 400.
C21_CodecAgeIndependentOfStore ==
    /\ [](\A t \in issued :
            TooOld(t)
            => ResolveOutcome(invites, clients, t, now) = "SignatureExpired")
    /\ [][\A t \in issued :
            (TooOld(t) /\ RespondentLinkResolveView(t))
            => (/\ last' = Response("resolve", "SignatureExpired", 400)
                /\ invites' = invites)]_vars

\* A token too old for the codec has just been refused although its Invite
\* row expires in the future and has uses left.
C21_OldTokenOfLiveRowRefused ==
    /\ last = Response("resolve", "SignatureExpired", 400)
    /\ \E t \in issued :
         /\ TooOld(t)
         /\ \E i \in invites :
              /\ i.token = t
              /\ i.expires_at > now
              /\ i.uses < i.max_uses

\* The serializer of a submission finds the assessment and the client the
\* body names.
SerializerAccepts(in) ==
    /\ in.assessment \in { AssessmentTable[i].slug :
                             i \in 1..Len(AssessmentTable) }
    /\ in.client_slug # None => \E c \in clients : c.slug = in.client_slug

\* Worker 1 reads a submission for an assessment its invitation does not
\* list.
SubmitsUninvited(in) ==
    /\ SubmitSave(1, in.assessment, in.client_slug, in.answers_ok)
    /\ in.assessment \notin Range(req[1].link.assessments)

IssueMustFail(in) ==
    \/ Range(in.assessments) = {}
    \/ \E a \in Range(in.assessments) :
         ~ \E i \in 1..Len(AssessmentTable) :
             /\ AssessmentTable[i].slug = a
             /\ \/ AssessmentTable[i].status = "published"
                \/ AssessmentTable[i].created_by = in.owner
    \/ in.mode \notin {"", "self-entry", "linked"}
    \/ /\ in.mode = "linked"
       /\ ~ \E c \in clients : c.owner = in.owner /\ c.slug = in.client_slug

\* C23: an issue request with an empty or unknown assessment list, an
\* unsupported mode, or mode linked without a client of the clinician is
\* answered 400 with a link error and inserts no Invite row; every Invite
\* row of mode linked has a client, and that client belongs to the row's
\* owner.
C23_IssueValidates ==
    /\ [][\A in \in WideIssueInputs :
            (/\ last'.op = "issue"
             /\ IssueMustFail(in)
             /\ RespondentLinkIssueView(in))
            => (/\ invites' = invites
                /\ issued' = issued
                /\ nonces' = nonces
                /\ last'.status = 400
                /\ last'.outcome # "")]_vars
    /\ [](\A i \in invites :
            i.mode = "linked"
            => \E c \in clients : c.id = i.client /\ c.owner = i.owner)

\* A linked request naming another clinician's client has just been
\* refused, beside a linked invite of the client's own clinician.
C23_ForeignClientRefused ==
    /\ last = Response("issue", "Client could not be found for this clinician.",
                       400)
    /\ \E i \in invites : i.mode = "linked" /\ i.client # 0

\* The outcomes with which resolve_link_token raises RespondentLinkError
ResolverFailures ==
    {"BadSignature", "SignatureExpired", "NotFound", "OwnerMismatch",
     "ClientMismatch", "PendingMismatch", "RowExpired", "ExhaustedUses"}

\* C24: whenever the resolution of a token fails, at the start of a request
\* or when a bind resolves the token it has just refreshed, the endpoint
\* (resolve, bind, fetch, submit) answers 400.
C24_ResolverFailuresAnswer400 ==
    (/\ last.op \in {"resolve", "bind", "fetch", "submit"}
     /\ last.outcome \in ResolverFailures)
    => last.status = 400

\* C25: a successful refresh_token_for_client rewrites the Invite row of the
\* pending token in place (same id, new token, client set, pending_client
\* false, uses 0, nothing else touched) exactly when that row has no client
\* or already has the target client; otherwise it inserts one new row for
\* the new token and leaves every existing row as it was.
C25_InPlaceOrNewRow ==
    [][\A w \in Workers :
         (/\ req[w].pc = "bind_refresh"
          /\ req'[w].pc = "bind_reresolve"
          /\ BindRefresh(w))
         => LET r == req[w]
                token == req'[w].refreshed
                target == ClientOfOwner(clients, r.link.owner_id, r.client.slug)
                rows == { i \in invites : i.id = r.link.invite_id }
            IN IF \E row \in rows : row.client \in {0, target}
               THEN \E row \in rows :
                      /\ token # row.token
                      /\ invites' = (invites \ {row}) \cup
                           {[row EXCEPT !.token = token,
                                        !.client = target,
                                        !.pending_client = FALSE,
                                        !.uses = 0]}
               ELSE \E n \in invites' :
                      /\ n.token = token
                      /\ n.id \notin { i.id : i \in invites }
                      /\ n.client = target
                      /\ invites' = invites \cup {n}]_vars

\* A bind whose refreshed token got an Invite row of its own, next to the
\* row of the pending token, which another bind had rewritten in place.
C25_NewRowBesideRebound ==
    \E w \in Workers :
        /\ req[w].pc = "bind_reresolve"
        /\ \E n, old \in invites :
             /\ n.token = req[w].refreshed
             /\ old.id = req[w].link.invite_id
             /\ n.id # old.id
             /\ old.client \notin {0, n.client}
             /\ ~old.pending_client

\* C26: a bind whose submitted email is non-empty and is, capitals aside,
\* the email of a client of the invite's owner goes on to update that client, and any other
\* bind goes on to create a client; the update leaves on the client the
\* submitted first name, or the previous one when none was submitted, and
\* touches no other client; the client created belongs to the invite's owner.
C26_UpsertKeyedByOwnerEmail ==
    /\ [][\A in \in UpsertInputs :
            (req[1].pc = "bind_lookup" /\ BindLookup(1, in))
            => LET owner == req[1].link.owner_id
                   keyed == { c \in clients :
                                /\ c.owner = owner
                                /\ lower(c.email) = lower(in.email) }
               IN IF in.email # "" /\ keyed # {}
                  THEN /\ req'[1].pc = "bind_update"
                       /\ req'[1].existing \in keyed
                  ELSE req'[1].pc = "bind_slug"]_vars
    /\ [][(req[1].pc = "bind_update" /\ BindUpdate(1))
            => \E c \in clients :
                 /\ c = req[1].existing
                 /\ c.owner = req[1].link.owner_id
                 /\ clients' = (clients \ {c}) \cup
                      {[c EXCEPT !.first_name =
                          IF req[1].first_name # "" THEN req[1].first_name
                          ELSE c.first_name]}]_vars
    /\ [][(req[1].pc = "bind_create" /\ BindCreate(1))
            => \/ clients' = clients
               \/ \E n \in clients' :
                    /\ n.owner = req[1].link.owner_id
                    /\ n.id \notin { c.id : c \in clients }
                    /\ clients' = clients \cup {n}]_vars

\* C27: no AssessmentResponse is recorded through a token whose Invite row
\* is still pending a client.
C27_NoResponseWhilePending ==
    \A r \in responses :
        ~ \E i \in invites : i.token = r.token /\ i.pending_client

\* C28: every AssessmentResponse recorded through a token is attached to the
\* client of that token's Invite row, and that client belongs to the
\* invite's owner.
C28_ResponseOnInviteClient ==
    \A r \in responses :
        \A i \in invites :
            i.token = r.token
            => /\ r.client = i.client
               /\ \E c \in clients : c.id = r.client /\ c.owner = i.owner

\* C29: the Invite issued for a Run row expires after the Run's
\* scheduled_at, and its token's signature is within the codec's maximum age
\* at scheduled_at.
C29_TokenUsableWhenDue ==
    \A r \in runs :
        \A i \in invites :
            i.token = r.token
            => /\ i.expires_at * MINUTES_PER_HOUR > r.scheduled_at
               /\ (r.scheduled_at - i.token.ts * MINUTES_PER_HOUR)
                     * (SECONDS_PER_HOUR \div MINUTES_PER_HOUR)
                    <= RESPONDENT_LINK_MAX_AGE_SECONDS

\* C30: after a successful refresh_token_for_client, on either path, the
\* refreshed token carries the owner, assessments and share_results of the
\* pending invite, and its Invite row has the expires_at and max_uses of the
\* pending invite's row.
C30_BindKeepsGrant ==
    [][\A w \in Workers :
         (/\ req[w].pc = "bind_refresh"
          /\ req'[w].pc = "bind_reresolve"
          /\ BindRefresh(w))
         => \A old \in invites, n \in invites' :
              (old.id = req[w].link.invite_id /\ n.token = req'[w].refreshed)
              => /\ n.token.data.owner = old.owner
                 /\ n.token.data.assessments = old.assessments
                 /\ n.token.data.share = old.share_results
                 /\ n.owner = old.owner
                 /\ n.assessments = old.assessments
                 /\ n.share_results = old.share_results
                 /\ n.expires_at = old.expires_at
                 /\ n.max_uses = old.max_uses]_vars

====
